---- MODULE Spec2Model ----
(***************************************************************************)
(* Model of the ape-safe multisig lifecycle: the signing orchestrator      *)
(* (ape_safe/accounts.py), the signature codec (ape_safe/utils.py) and the *)
(* in-memory transaction index (ape_safe/client/mock.py, client/base.py).  *)
(*                                                                         *)
(* Byte strings are sequences of naturals 0..255.  A Python dict is a      *)
(* sequence of <<key, value>> pairs with distinct keys, in insertion       *)
(* order.  Addresses are their 20 bytes.                                   *)
(***************************************************************************)
EXTENDS Integers, Sequences, FiniteSets, TLC

VARIABLES
    threshold,              \* contract.getThreshold()
    container,              \* addresses of the accounts the account manager holds
    chain_nonce,            \* contract nonce()
    approvedHashes,         \* contract approvedHashes: set of <<owner, safe_tx_hash>>
    transactions,           \* MockSafeClient.transactions: tx_id -> entry
    transactions_by_nonce,  \* MockSafeClient.transactions_by_nonce: nonce -> list of tx_id
    last,                   \* what the last operation was given, asked for and produced
    delegates,              \* MockSafeClient.delegates: delegator -> list of delegates
    data_folder,            \* SafeContainer.data_folder: alias -> the saved account data
    _accounts,              \* SafeContainer._accounts: the aliases loaded in this session
    proposers               \* each proposer's position in propose(), and what it holds

vars == <<threshold, container, chain_nonce, approvedHashes,
          transactions, transactions_by_nonce, last, delegates, data_folder, _accounts,
          proposers>>

\* Python None; an optional integer n is <<n>>, an optional set S is <<S>>
None == <<>>

\* the parties that propose against the same index
Proposers == {"first", "second"}
\* no proposer is inside propose()
NoProposers == [p \in Proposers |-> [pc |-> "idle", nonce |-> 0, safe_tx |-> <<>>, rounds |-> 0]]

(***************************************************************************)
(* Bounds.                                                                 *)
(***************************************************************************)
\* largest Safe nonce a record is created with
MaxNonce == 0
\* largest value the contract's nonce reaches
MaxChainNonce == 1
\* largest threshold the Safe is set up with
MaxThreshold == 2
\* largest signatures_required a caller passes
MaxSigsRequired == 1
\* cap on the length of one transactions_by_nonce list
MaxPerNonce == 1
\* cap on the number of confirmations stored with one entry
MaxConfs == 2
\* cap on the number of approved-hash entries in the contract's storage
MaxApproved == 2

(***************************************************************************)
(* Accounts.  ACCT_0 and ACCT_1 are the two test accounts named in         *)
(* tests/functional/test_utils.py; the owners list is in setup order.      *)
(***************************************************************************)
ACCT_0 == <<243,159,214,229,26,173,136,246,244,206,106,184,130,114,121,207,255,185,34,102>>
ACCT_1 == <<112,153,121,112,197,24,18,220,58,1,12,125,1,181,14,13,23,220,121,200>>
ACCT_2 == <<60,68,205,221,182,169,0,250,43,88,93,210,153,224,61,18,250,66,147,188>>
ACCT_3 == <<144,247,155,246,235,44,79,135,3,101,231,133,152,46,31,16,30,147,185,6>>
ZERO_ADDRESS == [i \in 1..20 |-> 0]

\* contract.getOwners(), in list order
OWNERS == <<ACCT_0, ACCT_1, ACCT_2>>
\* every account the account manager may hold: the owners and one non-owner
ACCOUNTS == {ACCT_0, ACCT_1, ACCT_2, ACCT_3}
\* the Safe itself and the receiver of the modelled transactions
SAFE_ADDRESS == [i \in 1..20 |-> 5]
RECEIVER == [i \in 1..20 |-> 9]

Range(s) == {s[i] : i \in 1..Len(s)}
Zeros(n) == [i \in 1..n |-> 0]

(***************************************************************************)
(* Python dict: insertion-ordered sequence of <<key, value>>.              *)
(***************************************************************************)
DictKeys(d) == [i \in 1..Len(d) |-> d[i][1]]
DictHas(d, k) == \E i \in 1..Len(d) : d[i][1] = k
DictGet(d, k) == d[CHOOSE i \in 1..Len(d) : d[i][1] = k][2]
\* d[k] = v : replaces the value in place, or appends a new key
DictSet(d, k, v) ==
    IF DictHas(d, k)
    THEN [i \in 1..Len(d) |-> IF d[i][1] = k THEN <<k, v>> ELSE d[i]]
    ELSE Append(d, <<k, v>>)
RECURSIVE DictUpdate(_, _)
\* d.update(e), also {**d, **e}
DictUpdate(d, e) ==
    IF e = <<>> THEN d
    ELSE DictUpdate(DictSet(d, e[1][1], e[1][2]), Tail(e))
UniqueKeys(d) == \A i, j \in 1..Len(d) : d[i][1] = d[j][1] => i = j

(***************************************************************************)
(* Signature codec: ape_safe/utils.py and SafeAccount._preapproved_signature *)
(***************************************************************************)
RECURSIVE StripZeros(_)
StripZeros(b) == IF b /= <<>> /\ Head(b) = 0 THEN StripZeros(Tail(b)) ELSE b
\* to_int(hexstr=a): the unbounded integer the bytes spell, big-endian,
\* held as its base-256 digits without leading zeros
addr_to_int(a) == StripZeros(a)
RECURSIVE DigitsLess(_, _)
DigitsLess(x, y) ==
    IF x = <<>> THEN FALSE
    ELSE IF Head(x) /= Head(y) THEN Head(x) < Head(y)
    ELSE DigitsLess(Tail(x), Tail(y))
\* x < y on those integers
IntLess(x, y) == Len(x) < Len(y) \/ (Len(x) = Len(y) /\ DigitsLess(x, y))

RECURSIVE InsertByInt_descending(_, _)
\* a slip: reverse=True, the greatest address first
InsertByInt_descending(s, k) ==
    IF s = <<>> THEN <<k>>
    ELSE IF IntLess(addr_to_int(Head(s)), addr_to_int(k)) THEN <<k>> \o s
    ELSE <<Head(s)>> \o InsertByInt_descending(Tail(s), k)
RECURSIVE InsertByInt(_, _)
\* one step of the stable sort: k goes behind every key that is not greater
InsertByInt(s, k) ==
    IF s = <<>> THEN <<k>>
    ELSE IF IntLess(addr_to_int(k), addr_to_int(Head(s))) THEN <<k>> \o s
    ELSE <<Head(s)>> \o InsertByInt(Tail(s), k)
RECURSIVE SortFrom(_, _)
SortFrom(acc, rest) ==
    IF rest = <<>> THEN acc ELSE SortFrom(InsertByInt(acc, Head(rest)), Tail(rest))
\* sorted(signatures, key=addr_to_int)
sorted_by_int(keys) == SortFrom(<<>>, keys)

\* a slip: the signatures in the mapping's iteration order
order_by_signer_unsorted(signatures) ==
    [i \in 1..Len(signatures) |-> signatures[i][2]]
order_by_signer(signatures) ==
    LET ks == sorted_by_int(DictKeys(signatures))
    IN  [i \in 1..Len(ks) |-> DictGet(signatures, ks[i])]

\* MessageSignature.encode_rsv(): r || s || v
encode_rsv(sig) == sig.r \o sig.s \o <<sig.v>>
RECURSIVE JoinBytes(_)
\* b"".join(...)
JoinBytes(chunks) ==
    IF chunks = <<>> THEN <<>> ELSE Head(chunks) \o JoinBytes(Tail(chunks))
\* the blob both callers of execTransaction build
encoded_signatures(signatures) ==
    LET ordered == order_by_signer(signatures)
    IN  JoinBytes([i \in 1..Len(ordered) |-> encode_rsv(ordered[i])])

\* v = 1, r = the address left-padded to 32 bytes, s = 0
_preapproved_signature(signer) ==
    [v |-> 1, r |-> Zeros(12) \o signer, s |-> Zeros(32)]

(***************************************************************************)
(* Transaction records and their identifying hash.                         *)
(***************************************************************************)
\* create_safe_tx: the record of a transaction (the 1.3.0 definition, whose
\* baseGas the method never sets); txn.nonce None takes nonce0
create_safe_tx(txn, nonce0) ==
    [to |-> txn.receiver, value |-> txn.value, data |-> txn.data,
     nonce |-> IF txn.nonce = None THEN nonce0 ELSE txn.nonce[1],
     operation |-> 0, safeTxGas |-> 0, baseGas |-> 0, gasPrice |-> 0,
     gasToken |-> ZERO_ADDRESS, refundReceiver |-> ZERO_ADDRESS]

\* a slip: the nonce is left out of the hashed fields
get_safe_tx_hash_without_nonce(safe_tx) ==
    <<safe_tx.to[1], safe_tx.to[20], safe_tx.gasToken[1], safe_tx.refundReceiver[1],
      safe_tx.value, safe_tx.data, safe_tx.operation, safe_tx.safeTxGas,
      safe_tx.baseGas, safe_tx.gasPrice, 0>> \o [i \in 1..21 |-> 119]

\* get_safe_tx_hash: 32 bytes; the typed-data hash is stood for by a packing
\* of the record's fields that is injective on the records of the model
get_safe_tx_hash(safe_tx) ==
    <<safe_tx.to[1], safe_tx.to[20], safe_tx.gasToken[1], safe_tx.refundReceiver[1],
      safe_tx.value, safe_tx.data, safe_tx.operation, safe_tx.safeTxGas,
      safe_tx.baseGas, safe_tx.gasPrice, safe_tx.nonce>> \o [i \in 1..21 |-> 119]

\* signer.sign_message(safe_tx) when the signer agrees: an ECDSA signature,
\* stood for by a value that names its signer and the hash it signs
sign_message(signer, safe_tx) ==
    [v |-> 27, r |-> signer \o [i \in 1..12 |-> 236], s |-> get_safe_tx_hash(safe_tx)]

(***************************************************************************)
(* Wallet state read by SafeAccount.                                       *)
(***************************************************************************)
signers == OWNERS
confirmations_required == threshold
IsSigner(a) == a \in Range(OWNERS)
\* the accounts of the container that are signers, in signers order
\* a slip: the local signers are listed from the end of the signer list
local_signers_reversed ==
    LET found == SelectSeq(signers, LAMBDA a : a \in container)
    IN  [i \in 1..Len(found) |-> found[Len(found) + 1 - i]]
local_signers == SelectSeq(signers, LAMBDA a : a \in container)

(***************************************************************************)
(* The transaction index: BaseSafeClient.get_transactions and the          *)
(* in-memory MockSafeClient.  Operators take the store they read.          *)
(***************************************************************************)
\* client.get_next_nonce(): the contract's nonce
get_next_nonce == chain_nonce

RECURSIVE Descending(_)
\* sorted(keys, reverse=True)
Descending(S) ==
    IF S = {} THEN <<>>
    ELSE LET m == CHOOSE x \in S : \A y \in S : y <= x
         IN  <<m>> \o Descending(S \ {m})

\* a slip: the nonces are gone through without reverse=True
_all_transactions_ascending(txs, byn) ==
    LET ds == Descending(DOMAIN byn)
        ns == [i \in 1..Len(ds) |-> ds[Len(ds) + 1 - i]]
        ids == JoinBytes([i \in 1..Len(ns) |-> byn[ns[i]]])
        found == SelectSeq(ids, LAMBDA id : id \in DOMAIN txs)
    IN  [i \in 1..Len(found) |-> txs[found[i]]]
\* MockSafeClient._all_transactions: by descending nonce, then list order
_all_transactions(txs, byn) ==
    LET ns == Descending(DOMAIN byn)
        ids == JoinBytes([i \in 1..Len(ns) |-> byn[ns[i]]])
        found == SelectSeq(ids, LAMBDA id : id \in DOMAIN txs)
    IN  [i \in 1..Len(found) |-> txs[found[i]]]

ConfOwners(txn) == {txn.confirmations[i].owner : i \in 1..Len(txn.confirmations)}

RECURSIVE ScanTransactions(_, _, _, _, _, _, _)
\* the loop of get_transactions over the raw sequence; confirmed is
\* "None", "True" or "False"
ScanTransactions(raw, next_nonce, confirmed, starting_nonce, ending_nonce, filter_by_ids, filter_by_missing_signers) ==
    IF raw = <<>> THEN <<>>
    ELSE
      LET txn == Head(raw)
          rest == ScanTransactions(Tail(raw), next_nonce, confirmed, starting_nonce,
                                   ending_nonce, filter_by_ids, filter_by_missing_signers)
          is_confirmed == Len(txn.confirmations) >= txn.confirmations_required
      IN  IF ending_nonce /= None /\ txn.nonce > ending_nonce[1] THEN rest
          ELSE IF txn.nonce < starting_nonce THEN <<>>
          ELSE IF confirmed = "False" /\ txn.executed THEN <<>>
          ELSE IF confirmed = "True" /\ ~is_confirmed THEN rest
          ELSE IF txn.nonce < next_nonce /\ ~txn.executed THEN rest
          ELSE IF filter_by_ids /= None /\ filter_by_ids[1] /= {}
                  /\ txn.safe_tx_hash \notin filter_by_ids[1] THEN rest
          ELSE IF filter_by_missing_signers /= None /\ filter_by_missing_signers[1] /= {}
                  /\ filter_by_missing_signers[1] \subseteq ConfOwners(txn) THEN rest
          ELSE <<txn>> \o rest

get_transactions(txs, byn, confirmed, starting_nonce, ending_nonce, filter_by_ids, filter_by_missing_signers) ==
    ScanTransactions(_all_transactions(txs, byn), get_next_nonce, confirmed,
                     starting_nonce, ending_nonce, filter_by_ids,
                     filter_by_missing_signers)

\* MockSafeClient.get_confirmations
get_confirmations(txs, safe_tx_hash) ==
    IF safe_tx_hash \in DOMAIN txs THEN txs[safe_tx_hash].confirmations ELSE <<>>

\* a slip: the nonce of the highest pending entry is taken as it is
new_nonce_of_pending(txs, byn) ==
    LET pending == get_transactions(txs, byn, "False", 0, None, None, None)
    IN  IF pending /= <<>> THEN pending[1].nonce ELSE get_next_nonce
\* a slip: the new nonce is the next nonce of the chain, pending or not
new_nonce_of_chain(txs, byn) == get_next_nonce
\* SafeAccount.new_nonce
new_nonce(txs, byn) ==
    LET pending == get_transactions(txs, byn, "False", 0, None, None, None)
    IN  IF pending /= <<>> THEN pending[1].nonce + 1 ELSE get_next_nonce

\* SafeTxConfirmation built by the mock for one posted signature
Confirmation(signer, sig) ==
    [owner |-> signer, signature |-> encode_rsv(sig), signature_type |-> "EOA"]

\* UnexecutedTxData.from_safe_tx
from_safe_tx(safe_tx, required) ==
    [safe |-> SAFE_ADDRESS, to |-> safe_tx.to, value |-> safe_tx.value,
     data |-> safe_tx.data, operation |-> safe_tx.operation,
     gas_token |-> safe_tx.gasToken, safe_tx_gas |-> safe_tx.safeTxGas,
     base_gas |-> safe_tx.baseGas, gas_price |-> safe_tx.gasPrice,
     refund_receiver |-> safe_tx.refundReceiver, nonce |-> safe_tx.nonce,
     safe_tx_hash |-> get_safe_tx_hash(safe_tx),
     confirmations_required |-> required, confirmations |-> <<>>,
     executed |-> FALSE]

\* UnexecutedTxData.as_safe_tx for a definition that has baseGas
as_safe_tx(entry) ==
    [to |-> entry.to, value |-> entry.value, data |-> entry.data,
     operation |-> entry.operation, gasToken |-> entry.gas_token,
     safeTxGas |-> entry.safe_tx_gas, baseGas |-> entry.base_gas,
     gasPrice |-> entry.gas_price, refundReceiver |-> entry.refund_receiver,
     nonce |-> entry.nonce]

\* a slip: the delegate is looked up among the delegators
delegator_for_delegate_by_key(delegate) ==
    IF DictHas(delegates, delegate) THEN <<delegate>> ELSE None
\* MockSafeClient.delegator_for_delegate: the first delegator, in the order
\* the delegators were added, whose list holds the delegate; None if none
delegator_for_delegate(delegate) ==
    LET holding == {j \in 1..Len(delegates) : delegate \in Range(delegates[j][2])}
    IN  IF holding = {} THEN None
        ELSE <<delegates[CHOOSE j \in holding : \A k \in holding : j <= k][1]>>

\* MockSafeClient.add_delegate(delegate, label, delegator)
add_delegate(delegate, delegator) ==
    IF ~IsSigner(delegator)
    THEN [error |-> "SafeClientException", delegates |-> delegates]
    ELSE [error |-> "",
          delegates |-> IF DictHas(delegates, delegator)
                        THEN DictSet(delegates, delegator,
                                     Append(DictGet(delegates, delegator), delegate))
                        ELSE Append(delegates, <<delegator, <<delegate>>>>)]

\* a slip: the delegator keeps its key when its list becomes empty
remove_delegate_keeping_key(delegate, delegator) ==
    IF ~IsSigner(delegator) \/ ~DictHas(delegates, delegator)
    THEN [error |-> "SafeClientException", delegates |-> delegates]
    ELSE LET list == DictGet(delegates, delegator)
         IN  IF delegate \notin Range(list)
             THEN [error |-> "ValueError", delegates |-> delegates]
             ELSE LET at == CHOOSE i \in 1..Len(list) :
                                /\ list[i] = delegate
                                /\ \A j \in 1..(i - 1) : list[j] /= delegate
                  IN  [error |-> "",
                       delegates |->
                          DictSet(delegates, delegator,
                                  SubSeq(list, 1, at - 1) \o SubSeq(list, at + 1, Len(list)))]
\* MockSafeClient.remove_delegate(delegate, delegator): list.remove takes
\* the first occurrence out and raises ValueError when there is none
remove_delegate(delegate, delegator) ==
    IF ~IsSigner(delegator) \/ ~DictHas(delegates, delegator)
    THEN [error |-> "SafeClientException", delegates |-> delegates]
    ELSE LET list == DictGet(delegates, delegator)
         IN  IF delegate \notin Range(list)
             THEN [error |-> "ValueError", delegates |-> delegates]
             ELSE LET at == CHOOSE i \in 1..Len(list) :
                                /\ list[i] = delegate
                                /\ \A j \in 1..(i - 1) : list[j] /= delegate
                      left == SubSeq(list, 1, at - 1) \o SubSeq(list, at + 1, Len(list))
                  IN  [error |-> "",
                       delegates |->
                          IF left = <<>>
                          THEN SelectSeq(delegates, LAMBDA kv : kv[1] /= delegator)
                          ELSE DictSet(delegates, delegator, left)]

\* a slip: the entry is stored but its tx_id is not listed under its nonce
post_transaction_unlisted(txs, byn, safe_tx, signatures) ==
    LET data == from_safe_tx(safe_tx, threshold)
        owned == SelectSeq(signatures, LAMBDA kv : IsSigner(kv[1]))
        confs == [i \in 1..Len(owned) |-> Confirmation(owned[i][1], owned[i][2])]
        tx_id == data.safe_tx_hash
    IN  IF confs = <<>>
        THEN [error |-> "SafeClientException", txs |-> txs, byn |-> byn]
        ELSE [error |-> "",
              txs |-> [id \in DOMAIN txs \cup {tx_id} |->
                          IF id = tx_id THEN [data EXCEPT !.confirmations = confs]
                          ELSE txs[id]],
              byn |-> byn]
\* MockSafeClient.post_transaction; gives the stores after the call, or the
\* error raised with the stores untouched
post_transaction(txs, byn, safe_tx, signatures) ==
    LET data == from_safe_tx(safe_tx, threshold)
        owned == SelectSeq(signatures, LAMBDA kv : IsSigner(kv[1]))
        confs == [i \in 1..Len(owned) |-> Confirmation(owned[i][1], owned[i][2])]
        others == SelectSeq(signatures, LAMBDA kv : ~IsSigner(kv[1]))
        by_delegate == \E i \in 1..Len(others) :
                          LET delegator == delegator_for_delegate(others[i][1])
                          IN  delegator /= None /\ IsSigner(delegator[1])
        tx_id == data.safe_tx_hash
        entry == [data EXCEPT !.confirmations = confs]
    IN  IF confs = <<>> /\ ~by_delegate
        THEN [error |-> "SafeClientException", txs |-> txs, byn |-> byn]
        ELSE [error |-> "",
              txs |-> [id \in DOMAIN txs \cup {tx_id} |->
                          IF id = tx_id THEN entry ELSE txs[id]],
              byn |-> [n \in DOMAIN byn \cup {data.nonce} |->
                          IF n = data.nonce
                          THEN (IF n \in DOMAIN byn THEN Append(byn[n], tx_id)
                                ELSE <<tx_id>>)
                          ELSE byn[n]]]

\* a slip: the new confirmations take the place of the stored ones
post_signatures_replacing(txs, safe_tx_id, signatures) ==
    IF signatures = <<>> THEN [error |-> "", txs |-> txs]
    ELSE IF safe_tx_id \notin DOMAIN txs THEN [error |-> "KeyError", txs |-> txs]
    ELSE [error |-> "",
          txs |-> [txs EXCEPT ![safe_tx_id].confirmations =
                      [i \in 1..Len(signatures) |->
                          Confirmation(signatures[i][1], signatures[i][2])]]]
\* MockSafeClient.post_signatures: one append per signature; an unknown
\* tx_id raises KeyError at the first signature
post_signatures(txs, safe_tx_id, signatures) ==
    IF signatures = <<>> THEN [error |-> "", txs |-> txs]
    ELSE IF safe_tx_id \notin DOMAIN txs THEN [error |-> "KeyError", txs |-> txs]
    ELSE [error |-> "",
          txs |-> [txs EXCEPT ![safe_tx_id].confirmations =
                      @ \o [i \in 1..Len(signatures) |->
                              Confirmation(signatures[i][1], signatures[i][2])]]]

(***************************************************************************)
(* Known confirmations: SafeAccount.get_api_confirmations,                 *)
(* _contract_approvals and _all_approvals.                                 *)
(***************************************************************************)
\* MessageSignature(r=sig[:32], s=sig[32:64], v=sig[64])
decode_rsv(b) == [v |-> b[65], r |-> SubSeq(b, 1, 32), s |-> SubSeq(b, 33, 64)]

RECURSIVE DictOfConfirmations(_, _)
\* {conf.owner: MessageSignature(...) for conf in confirmations}
DictOfConfirmations(d, confs) ==
    IF confs = <<>> THEN d
    ELSE DictOfConfirmations(
            DictSet(d, Head(confs).owner, decode_rsv(Head(confs).signature)),
            Tail(confs))

get_api_confirmations(txs, safe_tx) ==
    DictOfConfirmations(<<>>, get_confirmations(txs, get_safe_tx_hash(safe_tx)))

_contract_approvals(safe_tx) ==
    LET approved == SelectSeq(signers,
                      LAMBDA a : <<a, get_safe_tx_hash(safe_tx)>> \in approvedHashes)
    IN  [i \in 1..Len(approved) |-> <<approved[i], _preapproved_signature(approved[i])>>]

\* a slip: the index's signature is kept when both sources name an owner
_all_approvals_api_first(txs, safe_tx) ==
    DictUpdate(_contract_approvals(safe_tx), get_api_confirmations(txs, safe_tx))
_all_approvals(txs, safe_tx) ==
    DictUpdate(get_api_confirmations(txs, safe_tx), _contract_approvals(safe_tx))

(***************************************************************************)
(* SafeAccount.sign_transaction and the operations it calls.               *)
(***************************************************************************)
\* what an operation leaves in `last` when it has nothing to report
NoCall ==
    [op |-> "none", result |-> "", tx_id |-> None,
     submit |-> FALSE, submitter |-> None, submitter_account |-> None,
     signatures_required |-> None, required |-> 0, err_args |-> <<>>,
     known |-> <<>>, asked |-> <<>>, new_signatures |-> <<>>,
     signatures |-> <<>>, blob |-> None, posted |-> None]

RECURSIVE get_signatures(_, _, _)
\* get_signatures: every signer of the list is asked; those of `willing`
\* return a signature, the others return none
get_signatures(safe_tx, signers_, willing) ==
    IF signers_ = <<>> THEN <<>>
    ELSE LET signer == Head(signers_)
             rest == get_signatures(safe_tx, Tail(signers_), willing)
         IN  IF signer \in willing
             THEN DictUpdate(<<<<signer, sign_message(signer, safe_tx)>>>>, rest)
             ELSE rest

\* `if not signatures_required`: None or 0
NotSupplied(signatures_required) ==
    signatures_required = None \/ signatures_required[1] = 0

\* a slip: M - 1 whenever the submitter is a signer, submitting or not
signatures_needed_ignoring_submit(submit, submitter_account, signatures_required) ==
    IF NotSupplied(signatures_required)
    THEN (IF IsSigner(submitter_account)
          THEN confirmations_required - 1 ELSE confirmations_required)
    ELSE signatures_required[1]
\* the required count of sign_transaction
signatures_needed(submit, submitter_account, signatures_required) ==
    IF NotSupplied(signatures_required)
    THEN (IF submit /\ IsSigner(submitter_account)
          THEN confirmations_required - 1 ELSE confirmations_required)
    ELSE signatures_required[1]

\* the local signers left after the submitter filter and the skip filter
available_signers(submit, submitter_account, signatures_required, skip) ==
    LET all == local_signers
        no_submitter ==
            IF NotSupplied(signatures_required) /\ submit /\ IsSigner(submitter_account)
            THEN SelectSeq(all, LAMBDA x : x /= submitter_account)
            ELSE all
    IN  IF skip /= {} THEN SelectSeq(no_submitter, LAMBDA x : x \notin skip)
        ELSE no_submitter

\* SafeAccount.propose_safe_tx with an account as submitter (or None);
\* `signs` tells whether the submitter, if asked here, returns a signature
propose_safe_tx(txs, byn, safe_tx, submitter, sigs_by_signer, signs) ==
    LET ask == /\ submitter /= None
               /\ ~DictHas(sigs_by_signer, submitter)
               /\ Len(sigs_by_signer) < confirmations_required
               /\ (IsSigner(submitter)
                   \/ \E j \in 1..Len(delegates) : submitter \in Range(delegates[j][2]))
        sigs == IF ask /\ signs
                THEN DictSet(sigs_by_signer, submitter, sign_message(submitter, safe_tx))
                ELSE sigs_by_signer
        post == post_transaction(txs, byn, safe_tx, sigs)
    IN  [asked |-> IF ask THEN <<submitter>> ELSE <<>>,
         new_signatures |-> IF ask /\ signs
                            THEN <<<<submitter, sign_message(submitter, safe_tx)>>>>
                            ELSE <<>>,
         posted |-> <<sigs>>, error |-> post.error, txs |-> post.txs, byn |-> post.byn]

\* a slip: the partial signature set is published although submit was asked
not_enough_signatures_published(txs, byn, safe_tx, submitter_account, sigs_by_signer, required) ==
    LET p == propose_safe_tx(txs, byn, safe_tx, submitter_account, sigs_by_signer, FALSE)
    IN  [result |-> "NotEnoughSignatures",
         err_args |-> <<required, Len(sigs_by_signer)>>,
         posted |-> p.posted, txs |-> p.txs, byn |-> p.byn]
\* `elif submit: raise NotEnoughSignatures(signatures_required, len(sigs_by_signer))`
not_enough_signatures(txs, byn, safe_tx, submitter_account, sigs_by_signer, required) ==
    [result |-> "NotEnoughSignatures",
     err_args |-> <<required, Len(sigs_by_signer)>>,
     posted |-> None, txs |-> txs, byn |-> byn]

\* sign_transaction: the record left in `last` and the index after the call
sign_transaction(txn, submit, submitter, skip, signatures_required, willing, signs) ==
    LET txs == transactions
        byn == transactions_by_nonce
        base == [NoCall EXCEPT !.op = "sign_transaction", !.submit = submit,
                               !.submitter = submitter,
                               !.signatures_required = signatures_required]
        safe_tx == create_safe_tx(txn, new_nonce(txs, byn))
        submitter_account ==
            IF submitter = None THEN local_signers[1] ELSE submitter
        required == signatures_needed(submit, submitter_account, signatures_required)
        available == available_signers(submit, submitter_account, signatures_required, skip)
        known == _all_approvals(txs, safe_tx)
        to_ask == SelectSeq(available, LAMBDA x : ~DictHas(known, x))
        new_signatures == get_signatures(safe_tx, to_ask, willing)
        sigs_by_signer == IF to_ask /= <<>> THEN DictUpdate(known, new_signatures) ELSE known
        called == [base EXCEPT !.tx_id = get_safe_tx_hash(safe_tx),
                               !.submitter_account = submitter_account,
                               !.required = required, !.known = known,
                               !.asked = to_ask, !.new_signatures = new_signatures,
                               !.signatures = sigs_by_signer]
    IN  IF ~submit /\ submitter /= None
        THEN [last |-> [base EXCEPT !.result = "ValueError"], txs |-> txs, byn |-> byn]
        ELSE IF submitter = None /\ local_signers = <<>>
        THEN [last |-> [base EXCEPT !.result = "NoLocalSigners",
                                    !.tx_id = get_safe_tx_hash(safe_tx)],
              txs |-> txs, byn |-> byn]
        ELSE IF submit /\ Len(sigs_by_signer) >= required
        THEN LET final == IF IsSigner(submitter_account)
                          THEN DictSet(sigs_by_signer, submitter_account,
                                       _preapproved_signature(submitter_account))
                          ELSE sigs_by_signer
             IN  [last |-> [called EXCEPT !.result = "txn", !.signatures = final,
                                          !.blob = <<encoded_signatures(final)>>],
                  txs |-> txs, byn |-> byn]
        ELSE IF submit
        THEN LET f == not_enough_signatures(txs, byn, safe_tx, submitter_account,
                                            sigs_by_signer, required)
             IN  [last |-> [called EXCEPT !.result = f.result, !.err_args = f.err_args,
                                          !.posted = f.posted],
                  txs |-> f.txs, byn |-> f.byn]
        ELSE LET p == propose_safe_tx(txs, byn, safe_tx, submitter_account,
                                      sigs_by_signer, signs)
             IN  [last |-> [called EXCEPT
                               !.result = IF p.error = "" THEN "None" ELSE p.error,
                               !.asked = @ \o p.asked,
                               !.new_signatures = DictUpdate(@, p.new_signatures),
                               !.signatures = p.posted[1],
                               !.posted = p.posted],
                  txs |-> p.txs, byn |-> p.byn]

(***************************************************************************)
(* SafeAccount.add_signatures.                                             *)
(***************************************************************************)
RECURSIVE sign_all_available(_, _, _, _)
\* a slip: the loop without its break
sign_all_available(safe_tx, accs, needed, willing) ==
    IF accs = <<>> THEN [asked |-> <<>>, new_signatures |-> <<>>]
    ELSE LET acc == Head(accs)
             r == sign_all_available(safe_tx, Tail(accs), needed, willing)
         IN  [asked |-> <<acc>> \o r.asked,
              new_signatures |->
                  IF acc \in willing
                  THEN <<<<acc, sign_message(acc, safe_tx)>>>> \o r.new_signatures
                  ELSE r.new_signatures]
RECURSIVE sign_until_enough(_, _, _, _)
\* the loop of add_signatures: stops once `needed` signatures were obtained
sign_until_enough(safe_tx, accs, needed, willing) ==
    IF accs = <<>> THEN [asked |-> <<>>, new_signatures |-> <<>>]
    ELSE LET acc == Head(accs)
             mine == <<<<acc, sign_message(acc, safe_tx)>>>>
         IN  IF acc \in willing
             THEN IF needed - 1 <= 0
                  THEN [asked |-> <<acc>>, new_signatures |-> mine]
                  ELSE LET r == sign_until_enough(safe_tx, Tail(accs), needed - 1, willing)
                       IN  [asked |-> <<acc>> \o r.asked,
                            new_signatures |-> mine \o r.new_signatures]
             ELSE LET r == sign_until_enough(safe_tx, Tail(accs), needed, willing)
                  IN  [asked |-> <<acc>> \o r.asked, new_signatures |-> r.new_signatures]

\* a slip: `< 0` for `<= 0`
enough_confirmations_strict(confirmations_needed) == confirmations_needed < 0
\* `(confirmations_needed := ...) <= 0`
enough_confirmations(confirmations_needed) == confirmations_needed <= 0

\* add_signatures; by_id tells that a tx_id was passed instead of a record,
\* confirmations is None or <<the caller's list>>
add_signatures(safe_tx_in, by_id, confirmations_in, willing) ==
    LET txs == transactions
        safe_tx_id == get_safe_tx_hash(safe_tx_in)
        base == [NoCall EXCEPT !.op = "add_signatures", !.tx_id = safe_tx_id]
        safe_tx == IF by_id THEN as_safe_tx(txs[safe_tx_id]) ELSE safe_tx_in
        confirmations ==
            IF confirmations_in /= None /\ confirmations_in[1] /= <<>>
            THEN confirmations_in[1]
            ELSE get_confirmations(txs, safe_tx_id)
        confirmations_needed == confirmations_required - Len(confirmations)
        confirmed_owners == {confirmations[i].owner : i \in 1..Len(confirmations)}
        available == SelectSeq(local_signers, LAMBDA acc : acc \notin confirmed_owners)
        loop == sign_until_enough(safe_tx, available, confirmations_needed, willing)
        post == post_signatures(txs, safe_tx_id, loop.new_signatures)
        called == [base EXCEPT !.known = confirmations,
                               !.required = confirmations_needed]
    IN  IF by_id /\ safe_tx_id \notin DOMAIN txs
        THEN [last |-> [base EXCEPT !.result = "SafeClientException"], txs |-> txs]
        ELSE IF enough_confirmations(confirmations_needed)
        THEN [last |-> [called EXCEPT !.result = "ApeSafeError: enough confirmations"],
              txs |-> txs]
        ELSE IF available = <<>>
        THEN [last |-> [called EXCEPT !.result = "ApeSafeError: no local signers"],
              txs |-> txs]
        ELSE [last |-> [called EXCEPT
                          !.result = IF post.error = "" THEN "signatures" ELSE post.error,
                          !.asked = loop.asked,
                          !.new_signatures = loop.new_signatures,
                          !.signatures = DictUpdate(
                              [i \in 1..Len(confirmations) |->
                                  <<confirmations[i].owner, confirmations[i].signature>>],
                              loop.new_signatures),
                          !.posted = IF loop.new_signatures /= <<>>
                                     THEN <<loop.new_signatures>> ELSE None],
              txs |-> post.txs]

(***************************************************************************)
(* The wallet contract's execTransaction, as far as its outcome goes:      *)
(* the signature check against the hash at the contract's own nonce.       *)
(***************************************************************************)
RECURSIVE CheckSignatures(_, _, _, _, _, _)
\* checkNSignatures: the first `n` signatures of the blob, owners strictly
\* ascending; "" when they pass, the GS code otherwise.  A signature with
\* v = 1 names an owner that sends the call or has approved the hash; any
\* other is recovered to the signer it names when it signs this hash, and to
\* an address that is no owner otherwise
CheckSignatures(approved, blob, hash, sender, last_owner, n) ==
    IF n = 0 THEN ""
    ELSE IF Len(blob) < 65 THEN "GS020"
    ELSE LET sig == decode_rsv(SubSeq(blob, 1, 65))
             owner == IF sig.v = 1 THEN SubSeq(sig.r, 13, 32)
                      ELSE IF sig.s = hash THEN SubSeq(sig.r, 1, 20)
                      ELSE ZERO_ADDRESS
         IN  IF sig.v = 1 /\ sender /= owner /\ <<owner, hash>> \notin approved
             THEN "GS025"
             ELSE IF ~IntLess(addr_to_int(last_owner), addr_to_int(owner)) \/ ~IsSigner(owner)
             THEN "GS026"
             ELSE CheckSignatures(approved, SubSeq(blob, 66, Len(blob)), hash, sender,
                                  owner, n - 1)

\* execTransaction(fields without nonce, blob) sent by `sender`, with
\* `approved` the approved-hash storage at that moment
execTransaction(approved, safe_tx, blob, sender) ==
    CheckSignatures(approved, blob,
                    get_safe_tx_hash([safe_tx EXCEPT !.nonce = chain_nonce]),
                    sender, ZERO_ADDRESS, threshold)

(***************************************************************************)
(* SafeAccount.submit_safe_tx and SafeAccount._impersonated_call.          *)
(***************************************************************************)
submit_safe_tx(safe_tx_in, by_id, submitter) ==
    LET txs == transactions
        safe_tx_id == get_safe_tx_hash(safe_tx_in)
        base == [NoCall EXCEPT !.op = "submit_safe_tx", !.tx_id = safe_tx_id,
                               !.submit = TRUE, !.submitter = submitter]
        safe_tx == IF by_id THEN as_safe_tx(txs[safe_tx_id]) ELSE safe_tx_in
        signatures == _all_approvals(txs, safe_tx)
        blob == encoded_signatures(signatures)
        submitter_account == IF submitter = None THEN local_signers[1] ELSE submitter
        called == [base EXCEPT !.known = signatures, !.signatures = signatures,
                               !.blob = <<blob>>]
        revert == execTransaction(approvedHashes, safe_tx, blob, submitter_account)
    IN  IF by_id /\ safe_tx_id \notin DOMAIN txs
        THEN [last |-> [base EXCEPT !.result = "SafeClientException"], executed |-> FALSE]
        ELSE IF submitter = None /\ local_signers = <<>>
        THEN [last |-> [called EXCEPT !.result = "NoLocalSigners"], executed |-> FALSE]
        ELSE [last |-> [called EXCEPT !.submitter_account = submitter_account,
                                      !.result = IF revert = "" THEN "receipt" ELSE revert],
              executed |-> revert = ""]

\* _impersonated_call: approves the hash in storage for the first
\* `threshold` signers and sends execTransaction itself
_impersonated_call(txn, submitter) ==
    LET safe_tx == create_safe_tx(txn, new_nonce(transactions, transactions_by_nonce))
        safe_tx_hash == get_safe_tx_hash(safe_tx)
        chosen == SubSeq(signers, 1, confirmations_required)
        signatures == [i \in 1..Len(chosen) |->
                          <<chosen[i], _preapproved_signature(chosen[i])>>]
        sender == IF submitter = None THEN chosen[Len(chosen)] ELSE submitter
        blob == encoded_signatures(signatures)
    IN  [safe_tx |-> safe_tx, sender |-> sender, blob |-> blob,
         approved |-> {<<chosen[i], safe_tx_hash>> : i \in 1..Len(chosen)},
         last |-> [NoCall EXCEPT !.op = "_impersonated_call", !.tx_id = safe_tx_hash,
                                 !.submit = TRUE, !.submitter = submitter,
                                 !.submitter_account = sender,
                                 !.signatures = signatures, !.blob = <<blob>>]]

(***************************************************************************)
(* Inputs drawn by the actions.                                            *)
(***************************************************************************)
\* the transactions handed to the Safe: one call, with or without a nonce
Txns == {[receiver |-> RECEIVER, value |-> 0, data |-> 0, nonce |-> n] :
            n \in {None} \cup {<<k>> : k \in 0..MaxNonce}}
\* the records those transactions can become
SafeTxs == {create_safe_tx([receiver |-> RECEIVER, value |-> 0, data |-> 0,
                            nonce |-> <<k>>], 0) : k \in 0..MaxNonce}
\* skip lists: none, or the first signer
Skips == {{}, {OWNERS[1]}}
\* signatures_required: not given, or a count
SigsRequired == {None} \cup {<<k>> : k \in 1..MaxSigsRequired}
\* the account sets the account manager goes through: no signer, one signer,
\* another signer, two signers; the non-owner is always held
Containers == {{ACCT_3}, {ACCT_0, ACCT_3}, {ACCT_1, ACCT_3},
               {ACCT_0, ACCT_2, ACCT_3}}

Prefixes(seq) == {SubSeq(seq, 1, k) : k \in 0..Len(seq)}

(***************************************************************************)
(* The state machine.  An operation runs when the result of the one before *)
(* was taken by its caller (Return).                                       *)
(***************************************************************************)
Init ==
    /\ threshold \in 1..MaxThreshold
    /\ container \in Containers
    /\ chain_nonce = 0
    /\ approvedHashes = {}
    /\ transactions = <<>>
    /\ transactions_by_nonce = <<>>
    /\ last = NoCall
    /\ delegates = <<>>
    /\ data_folder = <<>>
    /\ _accounts = {}
    /\ proposers = NoProposers

Idle == last.op = "none"

WithinCaps(txs, byn) ==
    /\ \A n \in DOMAIN byn : n <= MaxNonce /\ Len(byn[n]) <= MaxPerNonce
    /\ \A id \in DOMAIN txs : Len(txs[id].confirmations) <= MaxConfs

\* safe.sign_transaction(txn, submit=..., submitter=..., skip=..., signatures_required=...)
SignTransaction ==
    /\ Idle
    /\ \E txn \in Txns, submit \in BOOLEAN, submitter \in {None} \cup container :
       \E skip \in IF ~submit /\ submitter /= None THEN {{}} ELSE Skips :
       \E signatures_required \in IF ~submit /\ submitter /= None THEN {None}
                                 ELSE SigsRequired :
       \E willing \in IF ~submit /\ submitter /= None THEN {{}}
                     ELSE SUBSET Range(local_signers) :
        LET sa == IF submitter = None /\ local_signers /= <<>>
                  THEN local_signers[1] ELSE submitter
            r == sign_transaction(txn, submit, submitter, skip, signatures_required,
                                  willing, sa \in willing)
        IN  /\ txn.nonce = None => new_nonce(transactions, transactions_by_nonce) <= MaxNonce
            /\ WithinCaps(r.txs, r.byn)
            /\ last' = r.last
            /\ transactions' = r.txs
            /\ transactions_by_nonce' = r.byn
            /\ UNCHANGED <<proposers, delegates, data_folder, _accounts, threshold, container, chain_nonce, approvedHashes>>

\* safe.add_signatures(safe_tx or tx_id, confirmations)
AddSignatures ==
    /\ Idle
    /\ \E safe_tx \in SafeTxs, by_id \in BOOLEAN, willing \in SUBSET Range(local_signers) :
       \E confirmations \in {None} \cup
            {<<c>> : c \in Prefixes(get_confirmations(transactions, get_safe_tx_hash(safe_tx)))} :
        LET r == add_signatures(safe_tx, by_id, confirmations, willing)
        IN  /\ WithinCaps(r.txs, transactions_by_nonce)
            /\ last' = r.last
            /\ transactions' = r.txs
            /\ UNCHANGED <<proposers, delegates, data_folder, _accounts, threshold, container, chain_nonce, approvedHashes,
                           transactions_by_nonce>>

\* safe.submit_safe_tx(safe_tx or tx_id, submitter): the submitter sends the
\* assembled call and the contract executes it or reverts
SubmitSafeTx ==
    /\ Idle
    /\ \E safe_tx \in SafeTxs, by_id \in BOOLEAN, submitter \in {None} \cup container :
        LET r == submit_safe_tx(safe_tx, by_id, submitter)
        IN  /\ r.executed => chain_nonce < MaxChainNonce
            /\ last' = r.last
            /\ chain_nonce' = IF r.executed THEN chain_nonce + 1 ELSE chain_nonce
            /\ UNCHANGED <<proposers, delegates, data_folder, _accounts, threshold, container, approvedHashes, transactions,
                           transactions_by_nonce>>

\* safe.call(txn, impersonate=True, submitter=...)
ImpersonatedCall ==
    /\ Idle
    /\ \E txn \in Txns, submitter \in {None} \cup container :
        LET r == _impersonated_call(txn, submitter)
            approved == approvedHashes \cup r.approved
            revert == execTransaction(approved, r.safe_tx, r.blob, r.sender)
        IN  /\ r.safe_tx.nonce <= MaxNonce
            /\ Cardinality(approved) <= MaxApproved
            /\ revert = "" => chain_nonce < MaxChainNonce
            /\ approvedHashes' = approved
            /\ chain_nonce' = IF revert = "" THEN chain_nonce + 1 ELSE chain_nonce
            /\ last' = [r.last EXCEPT !.result = IF revert = "" THEN "receipt" ELSE revert]
            /\ UNCHANGED <<proposers, delegates, data_folder, _accounts, threshold, container, transactions, transactions_by_nonce>>

\* an owner approves a hash on chain (approveHash), outside this program
ApproveHash ==
    /\ Idle
    /\ \E i \in 1..Len(OWNERS), safe_tx \in SafeTxs :
        /\ <<OWNERS[i], get_safe_tx_hash(safe_tx)>> \notin approvedHashes
        /\ Cardinality(approvedHashes) < MaxApproved
        /\ approvedHashes' = approvedHashes \cup {<<OWNERS[i], get_safe_tx_hash(safe_tx)>>}
        /\ UNCHANGED <<proposers, delegates, data_folder, _accounts, threshold, container, chain_nonce, transactions,
                       transactions_by_nonce, last>>

\* the account manager gains or loses accounts
ChangeAccounts ==
    /\ Idle
    /\ \E c \in Containers \ {container} : container' = c
    /\ UNCHANGED <<proposers, delegates, data_folder, _accounts, threshold, chain_nonce, approvedHashes, transactions,
                   transactions_by_nonce, last>>

\* the caller takes what the operation returned or raised
Return ==
    /\ ~Idle
    /\ last' = NoCall
    /\ UNCHANGED <<proposers, delegates, data_folder, _accounts, threshold, container, chain_nonce, approvedHashes, transactions,
                   transactions_by_nonce>>

Next ==
    \/ SignTransaction
    \/ AddSignatures
    \/ SubmitSafeTx
    \/ ImpersonatedCall
    \/ ApproveHash
    \/ ChangeAccounts
    \/ Return

Spec == Init /\ [][Next]_vars

(***************************************************************************)
(* Properties of sign_transaction.                                         *)
(***************************************************************************)
\* sign_transaction got past its argument check and the load of the submitter
SignTransactionRan ==
    last.op = "sign_transaction" /\ last.result \notin {"ValueError", "NoLocalSigners"}

\* the local signatures call `c` had obtained before its i-th request
SignedBefore(c, i) ==
    Cardinality({j \in 1..(i - 1) : DictHas(c.new_signatures, c.asked[j])})

\* C1 as stated: without signatures_required the required count is
\* threshold - 1 when the call submits and a submitter was specified that is a
\* signer, and threshold when the submitter is no signer, none was specified,
\* or the call does not submit
C1_RequiredCountAsStated ==
    (SignTransactionRan /\ NotSupplied(last.signatures_required)) =>
        last.required = IF /\ last.submit
                           /\ last.submitter /= None
                           /\ IsSigner(last.submitter)
                        THEN threshold - 1 ELSE threshold

\* C1: without signatures_required the required count is threshold - 1 when
\* the call submits and the account that will submit (the one given, or the
\* first local signer when none was given) is a signer, and threshold
\* otherwise; the count the error reports is that same count
C1_RequiredCount ==
    (SignTransactionRan /\ NotSupplied(last.signatures_required)) =>
        /\ last.submitter_account =
              IF last.submitter = None THEN local_signers[1] ELSE last.submitter
        /\ last.required = IF last.submit /\ IsSigner(last.submitter_account)
                           THEN threshold - 1 ELSE threshold
        /\ last.result = "NotEnoughSignatures" => last.err_args[1] = last.required

\* a submitting call without a submitter, on a 2-of-3 Safe, that needed one
\* signature
C1_Witness ==
    /\ SignTransactionRan
    /\ last.signatures_required = None
    /\ last.submit
    /\ last.submitter = None
    /\ threshold = 2
    /\ last.required = 1

\* C2 as stated: no local signer is asked once the known confirmations plus
\* the local signatures obtained so far reach the required count
C2_NeverAsksMoreThanNeeded ==
    SignTransactionRan =>
        \A i \in 1..Len(last.asked) :
            Len(last.known) + SignedBefore(last, i) < last.required

\* C3 as stated: a submitter that is a signer is never asked for a message
\* signature by a submitting call, whatever signatures_required and skip
\* are, and the call that is built carries its pre-approved signature
C3_SubmitterNeverAsked ==
    (SignTransactionRan /\ last.submit /\ IsSigner(last.submitter_account)) =>
        /\ last.submitter_account \notin Range(last.asked)
        /\ last.result = "txn" =>
              /\ DictHas(last.signatures, last.submitter_account)
              /\ DictGet(last.signatures, last.submitter_account) =
                    [v |-> 1, r |-> Zeros(12) \o last.submitter_account, s |-> Zeros(32)]

\* C4: a submitting call whose merged confirmations number less than the
\* required count raises NotEnoughSignatures(required, actual) and leaves
\* the index as it was
C4_NotEnoughSignatures ==
    [][(/\ Idle
        /\ last'.op = "sign_transaction"
        /\ last'.result \notin {"ValueError", "NoLocalSigners"}
        /\ last'.submit
        /\ Len(last'.signatures) < last'.required)
       => (/\ last'.result = "NotEnoughSignatures"
           /\ last'.err_args = <<last'.required, Len(last'.signatures)>>
           /\ last'.posted = None
           /\ transactions' = transactions
           /\ transactions_by_nonce' = transactions_by_nonce)]_vars

\* a submitting call that gathered one signature where two were required
C4_Witness ==
    /\ last.op = "sign_transaction"
    /\ last.submit
    /\ last.result = "NotEnoughSignatures"
    /\ last.err_args = <<2, 1>>
    /\ last.new_signatures /= <<>>
    /\ transactions = <<>>

\* get_transactions(confirmed=False) on the stores given
PendingEntries(txs, byn) == get_transactions(txs, byn, "False", 0, None, None, None)

\* the stored confirmation of signature `sig` by `signer`
StoredAs(signer, sig) ==
    [owner |-> signer, signature |-> sig.r \o sig.s \o <<sig.v>>, signature_type |-> "EOA"]

\* a call of sign_transaction with submit=false, on an index without pending
\* entry, in which a local signer signed
ProposingCall ==
    /\ Idle
    /\ last'.op = "sign_transaction"
    /\ last'.result \notin {"ValueError", "NoLocalSigners"}
    /\ ~last'.submit
    /\ last'.new_signatures /= <<>>
    /\ PendingEntries(transactions, transactions_by_nonce) = <<>>

\* the proposal was posted with every collected signature and nothing was
\* returned; the stored confirmations are read back under the tx_id
ProposalPosted ==
    /\ last'.result = "None"
    /\ last'.posted = <<last'.signatures>>
    /\ last'.tx_id \in DOMAIN transactions'
    /\ get_confirmations(transactions', last'.tx_id) =
          [i \in 1..Len(last'.signatures) |->
              StoredAs(last'.signatures[i][1], last'.signatures[i][2])]
    /\ Len(get_confirmations(transactions', last'.tx_id)) >= 1

\* get_transactions(confirmed=False) yields the posted entry and no other
OnePendingEntry ==
    LET after == PendingEntries(transactions', transactions_by_nonce')
    IN  /\ Len(after) = 1
        /\ after[1].safe_tx_hash = last'.tx_id
        /\ after[1] = transactions'[last'.tx_id]

\* C5 as stated: such a call posts the proposal and leaves exactly one
\* pending entry, with at least one confirmation
C5_ProposedIsPendingAsStated ==
    [][ProposingCall => (ProposalPosted /\ OnePendingEntry)]_vars

\* C5: such a call posts the proposal with all collected signatures and
\* returns nothing; when the record's nonce is not below the contract's
\* nonce, get_transactions(confirmed=False) then yields exactly that entry,
\* which has at least one confirmation, read back under its tx_id
C5_ProposedIsPending ==
    [][ProposingCall =>
          /\ ProposalPosted
          /\ transactions'[last'.tx_id].nonce >= chain_nonce => OnePendingEntry]_vars

\* a proposal made by such a call is the one pending entry of the index
C5_Witness ==
    /\ last.op = "sign_transaction"
    /\ ~last.submit
    /\ last.result = "None"
    /\ last.new_signatures /= <<>>
    /\ Len(PendingEntries(transactions, transactions_by_nonce)) = 1
    /\ PendingEntries(transactions, transactions_by_nonce)[1].safe_tx_hash = last.tx_id

(***************************************************************************)
(* Properties of the signature blob and of order_by_signer.                *)
(***************************************************************************)
\* the i-th 65-byte piece of a blob
Chunk(b, i) == SubSeq(b, 65 * (i - 1) + 1, 65 * i)

\* the mappings that hold the pairs of `d` in any iteration order
Reorderings(d) ==
    {[i \in 1..Len(d) |-> d[f[i]]] : f \in Permutations(1..Len(d))}

\* C6: the blob handed to execTransaction is, for n signatures, 65 * n
\* bytes: the r, s, v of each signature in turn, in strictly ascending order
\* of the signers' addresses as integers, whatever order they were
\* collected in
C6_BlobEncoding ==
    last.blob /= None =>
        LET b == last.blob[1]
            d == last.signatures
        IN  /\ Len(b) = 65 * Len(d)
            /\ \E f \in Permutations(1..Len(d)) :
                  /\ \A i \in 1..Len(d) :
                        Chunk(b, i) = d[f[i]][2].r \o d[f[i]][2].s \o <<d[f[i]][2].v>>
                  /\ \A i \in 1..(Len(d) - 1) :
                        IntLess(addr_to_int(d[f[i]][1]), addr_to_int(d[f[i + 1]][1]))
            /\ \A e \in Reorderings(d) : encoded_signatures(e) = b

\* an impersonated call on a 2-of-3 Safe: the signatures were made for the
\* first account and then the second, the blob holds the second's first
C6_Witness ==
    /\ last.op = "_impersonated_call"
    /\ last.blob /= None
    /\ Len(last.blob[1]) = 130
    /\ last.signatures[1][1] = ACCT_0
    /\ SubSeq(last.blob[1], 13, 32) = ACCT_1
    /\ SubSeq(last.blob[1], 78, 97) = ACCT_0

(***************************************************************************)
(* order_by_signer on its own: every mapping of up to MaxSignatures         *)
(* accounts to a signature of either kind, in every iteration order.       *)
(***************************************************************************)
\* largest number of signatures in a mapping handed to order_by_signer
MaxSignatures == 3

\* the signature of either kind an account gives for the first record
SignatureOf(a, kind) ==
    IF kind = "approved" THEN _preapproved_signature(a)
    ELSE sign_message(a, CHOOSE t \in SafeTxs : t.nonce = 0)

SignatureMappings ==
    UNION {{[i \in 1..n |-> <<c[i][1], SignatureOf(c[i][1], c[i][2])>>] :
               c \in {x \in [1..n -> ACCOUNTS \X {"signed", "approved"}] :
                         \A i, j \in 1..n : x[i][1] = x[j][1] => i = j}} :
           n \in 0..MaxSignatures}

InitOrder ==
    /\ threshold = 1
    /\ container = {ACCT_3}
    /\ chain_nonce = 0
    /\ approvedHashes = {}
    /\ transactions = <<>>
    /\ transactions_by_nonce = <<>>
    /\ last = NoCall
    /\ delegates = <<>>
    /\ data_folder = <<>>
    /\ _accounts = {}
    /\ proposers = NoProposers

\* order_by_signer(signatures)
OrderBySigner ==
    /\ Idle
    /\ \E signatures \in SignatureMappings :
          last' = [op |-> "order_by_signer", signatures |-> signatures,
                   result |-> order_by_signer(signatures)]
    /\ UNCHANGED <<proposers, delegates, data_folder, _accounts, threshold, container, chain_nonce, approvedHashes, transactions,
                   transactions_by_nonce>>

NextOrder ==
    \/ OrderBySigner
    \/ Return

OrderSpec == InitOrder /\ [][NextOrder]_vars

\* the signer a signature of the mapping belongs to
SignerOf(d, sig) == d[CHOOSE i \in 1..Len(d) : d[i][2] = sig][1]

\* C7: order_by_signer gives one signature per signer of the mapping, in
\* strictly ascending order of the signers' addresses as integers (so the
\* signature of 0x7099.. precedes that of 0xf39F..), and gives the same
\* list for the same pairs in any other iteration order
C7_OrderBySigner ==
    last.op = "order_by_signer" =>
        LET d == last.signatures
            out == last.result
        IN  /\ Len(out) = Len(d)
            /\ \A i \in 1..Len(d) : \E j \in 1..Len(out) : out[j] = d[i][2]
            /\ \A j \in 1..(Len(out) - 1) :
                  IntLess(StripZeros(SignerOf(d, out[j])), StripZeros(SignerOf(d, out[j + 1])))
            /\ \A e \in Reorderings(d) : order_by_signer(e) = out
            /\ \A i, j \in 1..Len(out) :
                  (SignerOf(d, out[i]) = ACCT_1 /\ SignerOf(d, out[j]) = ACCT_0) => i < j

\* the mapping of the test, 0xf39F.. entered first: 0x7099.. comes out first
C7_Witness ==
    /\ last.op = "order_by_signer"
    /\ DictKeys(last.signatures) = <<ACCT_0, ACCT_1>>
    /\ last.result = <<last.signatures[2][2], last.signatures[1][2]>>

(***************************************************************************)
(* Properties of add_signatures and submit_safe_tx.                        *)
(***************************************************************************)
\* the owners of the confirmations a call of add_signatures knew
KnownOwners(c) == {c.known[i].owner : i \in 1..Len(c.known)}

\* C8: add_signatures needs threshold minus the number of known
\* confirmations; it asks local signers that have not confirmed, one after
\* the other while fewer than needed have signed, and hands the index the
\* new signatures and no other: at most `needed`, none of a confirmed
\* owner, and no post at all when nobody signed
C8_AddSignatures ==
    [][(/\ Idle
        /\ last'.op = "add_signatures"
        /\ last'.result \in {"signatures", "KeyError"})
       => (/\ last'.required = threshold - Len(last'.known)
           /\ \A a \in Range(last'.asked) :
                 a \in container /\ IsSigner(a) /\ a \notin KnownOwners(last')
           /\ \A i \in 1..Len(last'.asked) : SignedBefore(last', i) < last'.required
           /\ Len(last'.new_signatures) <= last'.required
           /\ \A i \in 1..Len(last'.new_signatures) :
                 /\ last'.new_signatures[i][1] \in Range(last'.asked)
                 /\ last'.new_signatures[i][1] \notin KnownOwners(last')
           /\ transactions_by_nonce' = transactions_by_nonce
           /\ IF last'.new_signatures = <<>>
              THEN last'.posted = None /\ transactions' = transactions
              ELSE /\ last'.posted = <<last'.new_signatures>>
                   /\ last'.result = "KeyError" => transactions' = transactions
                   /\ last'.result = "signatures" =>
                         transactions' =
                            [transactions EXCEPT ![last'.tx_id].confirmations =
                                @ \o [i \in 1..Len(last'.new_signatures) |->
                                        StoredAs(last'.new_signatures[i][1],
                                                 last'.new_signatures[i][2])]])]_vars

\* one confirmation known on a 2-of-3 Safe, two local signers left: the
\* first signed and the second was not asked
C8_Witness ==
    /\ last.op = "add_signatures"
    /\ last.result = "signatures"
    /\ threshold = 2
    /\ Len(last.known) = 1
    /\ last.asked = <<ACCT_0>>
    /\ DictKeys(last.new_signatures) = <<ACCT_0>>
    /\ ACCT_2 \in container
    /\ ACCT_2 \notin KnownOwners(last)

\* C9: add_signatures raises "enough confirmations" when the known
\* confirmations number at least the threshold, and "no local signers" when
\* they do not and every local signer has confirmed; either way nobody is
\* asked and the index stays as it was
C9_AddSignaturesErrors ==
    [][(/\ Idle
        /\ last'.op = "add_signatures"
        /\ last'.result /= "SafeClientException")
       => (/\ Len(last'.known) >= threshold =>
                 last'.result = "ApeSafeError: enough confirmations"
           /\ (/\ Len(last'.known) < threshold
               /\ \A a \in container : IsSigner(a) => a \in KnownOwners(last')) =>
                 last'.result = "ApeSafeError: no local signers"
           /\ last'.result \in {"ApeSafeError: enough confirmations",
                                "ApeSafeError: no local signers"} =>
                 /\ last'.asked = <<>>
                 /\ last'.new_signatures = <<>>
                 /\ last'.posted = None
                 /\ transactions' = transactions
                 /\ transactions_by_nonce' = transactions_by_nonce)]_vars

\* the one local signer has confirmed and a second confirmation is needed
C9_Witness ==
    /\ last.op = "add_signatures"
    /\ last.result = "ApeSafeError: no local signers"
    /\ local_signers /= <<>>
    /\ Len(last.known) = 1
    /\ threshold = 2

\* the owners with an approved-hash entry for the hash
ApprovedOnChain(hash) == {a \in Range(OWNERS) : <<a, hash>> \in approvedHashes}

\* C10: the signatures submit_safe_tx encodes are one per owner that has a
\* confirmation in the index or an approved-hash entry on chain: the
\* pre-approved form for every owner with an entry on chain, the index's
\* signature for the others
C10_SubmitApprovals ==
    (last.op = "submit_safe_tx" /\ last.result /= "SafeClientException") =>
        LET confs == get_confirmations(transactions, last.tx_id)
            on_chain == ApprovedOnChain(last.tx_id)
            d == last.signatures
        IN  /\ UniqueKeys(d)
            /\ Range(DictKeys(d)) = {confs[j].owner : j \in 1..Len(confs)} \cup on_chain
            /\ \A i \in 1..Len(d) :
                  IF d[i][1] \in on_chain
                  THEN d[i][2] = [v |-> 1, r |-> Zeros(12) \o d[i][1], s |-> Zeros(32)]
                  ELSE \E j \in 1..Len(confs) : confs[j] = StoredAs(d[i][1], d[i][2])
            /\ last.blob /= None /\ Len(last.blob[1]) = 65 * Len(d)

\* an owner with a signature in the index and an approval on chain
C10_Witness ==
    /\ last.op = "submit_safe_tx"
    /\ last.result /= "SafeClientException"
    /\ \E j \in 1..Len(get_confirmations(transactions, last.tx_id)) :
          /\ get_confirmations(transactions, last.tx_id)[j].owner
                \in ApprovedOnChain(last.tx_id)
          /\ get_confirmations(transactions, last.tx_id)[j].signature[65] = 27

\* submit_safe_tx got past the lookup of the record and the load of the
\* submitter
SubmitSafeTxRan ==
    /\ last.op = "submit_safe_tx"
    /\ last.result \notin {"SafeClientException", "NoLocalSigners"}

\* C11 as stated: whenever the submitter of submit_safe_tx is a signer, the
\* signatures encoded into the call hold its pre-approved signature, also
\* when neither the index nor the contract holds a confirmation from it
C11_SubmitterPreapproved ==
    (SubmitSafeTxRan /\ IsSigner(last.submitter_account)) =>
        /\ DictHas(last.signatures, last.submitter_account)
        /\ DictGet(last.signatures, last.submitter_account) =
              [v |-> 1, r |-> Zeros(12) \o last.submitter_account, s |-> Zeros(32)]

\* the index holds exactly two confirmations of the call's record, by two
\* owners, and the contract holds no approval of it
TwoConfirmations ==
    LET confs == get_confirmations(transactions, last.tx_id)
    IN  /\ threshold = 2
        /\ Len(confs) = 2
        /\ confs[1].owner /= confs[2].owner
        /\ ApprovedOnChain(last.tx_id) = {}

\* the blob is the two stored signatures, the lower address first
BothInAddressOrder ==
    LET confs == get_confirmations(transactions, last.tx_id)
        lo == IF IntLess(StripZeros(confs[1].owner), StripZeros(confs[2].owner))
              THEN 1 ELSE 2
    IN  /\ last.blob /= None
        /\ last.blob[1] = confs[lo].signature \o confs[3 - lo].signature
        /\ DictKeys(last.signatures) = <<confs[1].owner, confs[2].owner>>

\* C12: on a 2-of-3 Safe, add_signatures on an entry that holds the one
\* confirmation of S1, when S2 signs, leaves the entry with exactly the two
\* confirmations of S1 and S2; a submit of an entry with two such
\* confirmations encodes both signatures, the lower address first,
\* whichever was stored first
C12_TopUpThenSubmit ==
    [][/\ (/\ Idle
           /\ last'.op = "add_signatures"
           /\ last'.result = "signatures"
           /\ threshold = 2
           /\ Len(get_confirmations(transactions, last'.tx_id)) = 1
           /\ last'.known = get_confirmations(transactions, last'.tx_id)
           /\ Len(last'.new_signatures) = 1)
          => LET before == get_confirmations(transactions, last'.tx_id)
                 after == get_confirmations(transactions', last'.tx_id)
             IN  /\ Len(after) = 2
                 /\ after[1] = before[1]
                 /\ after[2] = StoredAs(last'.new_signatures[1][1],
                                        last'.new_signatures[1][2])
                 /\ after[2].owner /= after[1].owner
       /\ (SubmitSafeTxRan /\ TwoConfirmations)' => BothInAddressOrder'
      ]_vars

\* 0xf39F.. confirmed first and 0x7099.. second; the submitted call was
\* executed with the signature of 0x7099.. first
C12_Witness ==
    /\ SubmitSafeTxRan
    /\ TwoConfirmations
    /\ last.result = "receipt"
    /\ get_confirmations(transactions, last.tx_id)[1].owner = ACCT_0
    /\ get_confirmations(transactions, last.tx_id)[2].owner = ACCT_1
    /\ SubSeq(last.blob[1], 1, 20) = ACCT_1
    /\ SubSeq(last.blob[1], 66, 85) = ACCT_0

(***************************************************************************)
(* The index on its own: MockSafeClient driven through its posting methods *)
(* (safe.client.post_transaction, safe.client.post_signatures), through    *)
(* proposals of the one local signer, and through executions.              *)
(***************************************************************************)
\* largest nonce of a record handed to the index
MaxIndexNonce == 1
\* largest number of listings and confirmations the index holds together
MaxIndexSize == 6

\* a transaction handed over without a nonce
DefaultTxn == [receiver |-> RECEIVER, value |-> 0, data |-> 0, nonce |-> None]
\* the records handed to the index: a call of each nonce, and the rejection
\* of the first (a call of the Safe to itself at nonce 0)
IndexSafeTxs ==
    {create_safe_tx([receiver |-> RECEIVER, value |-> 0, data |-> 0, nonce |-> <<k>>], 0) :
        k \in 0..MaxIndexNonce}
    \cup {create_safe_tx([receiver |-> SAFE_ADDRESS, value |-> 0, data |-> 0,
                          nonce |-> <<0>>], 0)}

\* the signature maps handed to the posting methods: empty, of one owner,
\* of the non-owner, of two owners
IndexSignatureMaps(safe_tx) ==
    {<<>>, <<<<ACCT_0, sign_message(ACCT_0, safe_tx)>>>>,
     <<<<ACCT_1, sign_message(ACCT_1, safe_tx)>>>>,
     <<<<ACCT_3, sign_message(ACCT_3, safe_tx)>>>>,
     <<<<ACCT_0, sign_message(ACCT_0, safe_tx)>>, <<ACCT_1, sign_message(ACCT_1, safe_tx)>>>>}

RECURSIVE TotalLen(_, _)
\* the sum of the lengths of f[x] (or of f[x].confirmations) over x in D
TotalLen(f, D) ==
    IF D = {} THEN 0
    ELSE LET x == CHOOSE y \in D : TRUE
         IN  Len(f[x]) + TotalLen(f, D \ {x})

IndexSize(txs, byn) ==
    TotalLen(byn, DOMAIN byn)
      + TotalLen([id \in DOMAIN txs |-> txs[id].confirmations], DOMAIN txs)

InitIndex ==
    /\ threshold = 2
    /\ container = {ACCT_0, ACCT_3}
    /\ chain_nonce = 0
    /\ approvedHashes = {}
    /\ transactions = <<>>
    /\ transactions_by_nonce = <<>>
    /\ last = NoCall
    /\ delegates = <<>>
    /\ data_folder = <<>>
    /\ _accounts = {}
    /\ proposers = NoProposers

\* safe.client.post_transaction(safe_tx, signatures)
PostTransaction ==
    /\ Idle
    /\ \E safe_tx \in IndexSafeTxs :
       \E signatures \in IndexSignatureMaps(safe_tx) :
        LET r == post_transaction(transactions, transactions_by_nonce, safe_tx, signatures)
        IN  /\ IndexSize(r.txs, r.byn) <= MaxIndexSize
            /\ last' = [NoCall EXCEPT !.op = "post_transaction",
                                      !.tx_id = get_safe_tx_hash(safe_tx),
                                      !.posted = <<signatures>>,
                                      !.result = IF r.error = "" THEN "None" ELSE r.error]
            /\ transactions' = r.txs
            /\ transactions_by_nonce' = r.byn
            /\ UNCHANGED <<proposers, delegates, data_folder, _accounts, threshold, container, chain_nonce, approvedHashes>>

\* safe.client.post_signatures(tx_id, signatures)
PostSignatures ==
    /\ Idle
    /\ \E safe_tx \in IndexSafeTxs :
       \E signatures \in IndexSignatureMaps(safe_tx) :
        LET r == post_signatures(transactions, get_safe_tx_hash(safe_tx), signatures)
        IN  /\ IndexSize(r.txs, transactions_by_nonce) <= MaxIndexSize
            /\ last' = [NoCall EXCEPT !.op = "post_signatures",
                                      !.tx_id = get_safe_tx_hash(safe_tx),
                                      !.posted = <<signatures>>,
                                      !.result = IF r.error = "" THEN "None" ELSE r.error]
            /\ transactions' = r.txs
            /\ UNCHANGED <<proposers, delegates, data_folder, _accounts, threshold, container, chain_nonce, approvedHashes,
                           transactions_by_nonce>>

\* safe.sign_transaction(txn, submit=False) for a transaction without a
\* nonce: a proposal by the local signer at the default nonce
Propose ==
    /\ Idle
    /\ \E willing \in SUBSET Range(local_signers) :
        LET r == sign_transaction(DefaultTxn, FALSE, None, {}, None, willing,
                                  local_signers[1] \in willing)
        IN  /\ new_nonce(transactions, transactions_by_nonce) <= MaxIndexNonce
            /\ IndexSize(r.txs, r.byn) <= MaxIndexSize
            /\ last' = r.last
            /\ transactions' = r.txs
            /\ transactions_by_nonce' = r.byn
            /\ UNCHANGED <<proposers, delegates, data_folder, _accounts, threshold, container, chain_nonce, approvedHashes>>

NextIndex ==
    \/ PostTransaction
    \/ PostSignatures
    \/ Propose
    \/ SubmitSafeTx
    \/ Return

IndexSpec == InitIndex /\ [][NextIndex]_vars

\* C13 as stated: after any sequence of post_transaction and post_signatures
\* calls, no owner appears more than once among the confirmations of an
\* entry of the index
C13_OwnersUnique ==
    \A id \in DOMAIN transactions :
        \A i, j \in 1..Len(transactions[id].confirmations) :
            transactions[id].confirmations[i].owner
                = transactions[id].confirmations[j].owner => i = j

\* how many times the raw sequence of the index yields the entry of an id
TimesListed(txs, byn, id) ==
    Len(SelectSeq(_all_transactions(txs, byn), LAMBDA e : e.safe_tx_hash = id))

\* C14 as stated: a post_transaction of a record whose tx_id the index
\* already stores leaves that tx_id listed exactly once, by the raw sequence
\* and by get_transactions, and keeps every confirmation the entry held
C14_RepostMerges ==
    [][(/\ Idle
        /\ last'.op \in {"post_transaction", "sign_transaction"}
        /\ last'.posted /= None
        /\ last'.result = "None"
        /\ last'.tx_id \in DOMAIN transactions)
       => /\ TimesListed(transactions', transactions_by_nonce', last'.tx_id) = 1
          /\ Len(SelectSeq(get_transactions(transactions', transactions_by_nonce',
                                            "None", 0, None, None, None),
                           LAMBDA e : e.safe_tx_hash = last'.tx_id)) <= 1
          /\ \A i \in 1..Len(transactions[last'.tx_id].confirmations) :
                transactions[last'.tx_id].confirmations[i]
                    \in Range(transactions'[last'.tx_id].confirmations)
      ]_vars

\* C15 as stated: post_signatures for a tx_id the index does not know fails
\* with the not-found client error, whatever the signature map, and leaves
\* the index as it was
C15_UnknownIdNotFound ==
    [][(/\ Idle
        /\ last'.op = "post_signatures"
        /\ last'.tx_id \notin DOMAIN transactions)
       => /\ last'.result = "MultisigTransactionNotFoundError"
          /\ transactions' = transactions
          /\ transactions_by_nonce' = transactions_by_nonce
      ]_vars

\* the listed entries of the index that are neither executed nor orphaned
PendingIds ==
    {id \in DOMAIN transactions :
        /\ TimesListed(transactions, transactions_by_nonce, id) >= 1
        /\ ~transactions[id].executed
        /\ transactions[id].nonce >= chain_nonce}

\* C16: new_nonce is one more than the highest nonce of a pending entry, or
\* the on-chain next nonce when none is pending; a proposal made at the
\* default nonce takes no nonce of a pending entry, none below the on-chain
\* next nonce, and one above the nonce of every entry listed before it
C16_NewNonce ==
    [][/\ new_nonce(transactions, transactions_by_nonce) =
            IF PendingIds = {} THEN chain_nonce
            ELSE 1 + CHOOSE n \in {transactions[id].nonce : id \in PendingIds} :
                        \A id \in PendingIds : transactions[id].nonce <= n
       /\ (/\ Idle
           /\ last'.op = "sign_transaction"
           /\ last'.result = "None")
          => LET n == transactions'[last'.tx_id].nonce
             IN  /\ \A id \in PendingIds : transactions[id].nonce /= n
                 /\ n >= chain_nonce
                 /\ \A id \in DOMAIN transactions :
                       TimesListed(transactions, transactions_by_nonce, id) >= 1
                           => transactions[id].nonce < n
      ]_vars

\* a second proposal at the default nonce: nonce 0 was pending and the new
\* entry took nonce 1
C16_Witness ==
    /\ last.op = "sign_transaction"
    /\ last.result = "None"
    /\ chain_nonce = 0
    /\ transactions[last.tx_id].nonce = 1
    /\ \E id \in PendingIds : transactions[id].nonce = 0

(***************************************************************************)
(* BaseSafeClient.get_transactions on its own: the raw sequence and the    *)
(* next nonce are what the two abstract methods of the client return, the  *)
(* arguments are those of the call.                                        *)
(***************************************************************************)
\* largest nonce of an entry of a raw sequence
MaxQueryNonce == 2
\* largest length of a raw sequence
MaxRawLen == 2

\* the record of nonce n
QueryTx(n) ==
    create_safe_tx([receiver |-> RECEIVER, value |-> 0, data |-> 0, nonce |-> <<n>>], 0)

\* an entry of a 2-of-3 Safe as the index returns it: UnexecutedTxData, or
\* ExecutedTxData when `executed`, confirmed by the owners of the list
QueryEntry(n, executed, owners) ==
    [from_safe_tx(QueryTx(n), 2) EXCEPT
        !.confirmations = [i \in 1..Len(owners) |->
                              Confirmation(owners[i], sign_message(owners[i], QueryTx(n)))],
        !.executed = executed]

QueryEntries ==
    {QueryEntry(n, x, o) : n \in 0..MaxQueryNonce, x \in BOOLEAN,
                           o \in {<<ACCT_0>>, <<ACCT_0, ACCT_1>>}}

\* what _all_transactions can return: entries by descending nonce
RawSequences ==
    UNION {{r \in [1..k -> QueryEntries] :
               \A i \in 1..k : i < k => r[i].nonce >= r[i + 1].nonce} :
           k \in 0..MaxRawLen}

\* the arguments of a call: a nonce range, or the two set filters
QueryArguments ==
    {[confirmed |-> c, starting_nonce |-> s, ending_nonce |-> e,
      filter_by_ids |-> None, filter_by_missing_signers |-> None] :
        c \in {"None", "True", "False"}, s \in 0..MaxQueryNonce,
        e \in {None} \cup {<<n>> : n \in 0..MaxQueryNonce}}
    \cup
    {[confirmed |-> c, starting_nonce |-> 0, ending_nonce |-> None,
      filter_by_ids |-> f, filter_by_missing_signers |-> m] :
        c \in {"None", "True", "False"},
        f \in {None, <<{}>>, <<{get_safe_tx_hash(QueryTx(1))}>>,
               <<{get_safe_tx_hash(QueryTx(0)), get_safe_tx_hash(QueryTx(1))}>>},
        m \in {None, <<{}>>, <<{ACCT_1}>>, <<{ACCT_0}>>}}

InitQuery ==
    /\ threshold = 2
    /\ container = {ACCT_3}
    /\ chain_nonce = 0
    /\ approvedHashes = {}
    /\ transactions = <<>>
    /\ transactions_by_nonce = <<>>
    /\ last = NoCall
    /\ delegates = <<>>
    /\ data_folder = <<>>
    /\ _accounts = {}
    /\ proposers = NoProposers

\* a slip: the next nonce is not looked at, orphaned entries are yielded
get_transactions_of_keeping_orphans(raw, next_nonce, a) ==
    ScanTransactions(raw, 0, a.confirmed, a.starting_nonce, a.ending_nonce,
                     a.filter_by_ids, a.filter_by_missing_signers)
\* a slip: with confirmed=False an executed entry is passed over and the
\* iteration goes on
get_transactions_of_skipping_executed(raw, next_nonce, a) ==
    ScanTransactions(IF a.confirmed = "False"
                     THEN SelectSeq(raw, LAMBDA e : ~e.executed) ELSE raw,
                     next_nonce, a.confirmed, a.starting_nonce, a.ending_nonce,
                     a.filter_by_ids, a.filter_by_missing_signers)
\* a slip: an entry above ending_nonce ends the iteration
get_transactions_of_ending_above(raw, next_nonce, a) ==
    IF a.ending_nonce /= None /\ raw /= <<>> /\ raw[1].nonce > a.ending_nonce[1]
    THEN <<>>
    ELSE ScanTransactions(raw, next_nonce, a.confirmed, a.starting_nonce,
                          a.ending_nonce, a.filter_by_ids, a.filter_by_missing_signers)
\* a slip: an entry whose nonce is starting_nonce already ends the iteration
get_transactions_of_stopping_at_start(raw, next_nonce, a) ==
    ScanTransactions(raw, next_nonce, a.confirmed, a.starting_nonce + 1,
                     a.ending_nonce, a.filter_by_ids, a.filter_by_missing_signers)
\* get_transactions over what the two abstract methods return, the
\* arguments of the call in one record
get_transactions_of(raw, next_nonce, a) ==
    ScanTransactions(raw, next_nonce, a.confirmed, a.starting_nonce, a.ending_nonce,
                     a.filter_by_ids, a.filter_by_missing_signers)

\* client.get_transactions(confirmed=..., starting_nonce=..., ...)
GetTransactions ==
    /\ Idle
    /\ \E raw \in RawSequences, next_nonce \in 0..(MaxQueryNonce + 1), a \in QueryArguments :
          last' = [op |-> "get_transactions", raw |-> raw, next_nonce |-> next_nonce,
                   args |-> a,
                   result |-> get_transactions_of(raw, next_nonce, a)]
    /\ UNCHANGED <<proposers, delegates, data_folder, _accounts, threshold, container, chain_nonce, approvedHashes, transactions,
                   transactions_by_nonce>>

NextQuery ==
    \/ GetTransactions
    \/ Return

QuerySpec == InitQuery /\ [][NextQuery]_vars

\* a call of get_transactions has returned
Queried == last.op = "get_transactions"

\* every argument of the call has its default value
DefaultArguments(a) ==
    /\ a.confirmed = "None"
    /\ a.starting_nonce = 0
    /\ a.ending_nonce = None
    /\ a.filter_by_ids = None
    /\ a.filter_by_missing_signers = None

\* an unexecuted entry whose nonce is below the next nonce
Orphaned(e, next_nonce) == ~e.executed /\ e.nonce < next_nonce

\* C17: get_transactions yields no orphaned entry, and drops for that reason
\* no other entry: what it yields is what it yields for a next nonce of 0,
\* less the orphaned entries, and with default arguments it is the raw
\* sequence less the orphaned entries
C17_OrphansSkipped ==
    Queried =>
        LET a == last.args
            unfiltered == ScanTransactions(last.raw, 0, a.confirmed, a.starting_nonce,
                                           a.ending_nonce, a.filter_by_ids,
                                           a.filter_by_missing_signers)
        IN  /\ \A i \in 1..Len(last.result) : ~Orphaned(last.result[i], last.next_nonce)
            /\ last.result =
                  SelectSeq(unfiltered, LAMBDA e : ~Orphaned(e, last.next_nonce))
            /\ DefaultArguments(a) =>
                  last.result =
                      SelectSeq(last.raw, LAMBDA e : ~Orphaned(e, last.next_nonce))

\* next nonce 2: of the unexecuted entries of nonce 2 and of nonce 1, the
\* first is yielded and the second is not
C17_Witness ==
    /\ Queried
    /\ last.next_nonce = 2
    /\ Len(last.raw) = 2
    /\ last.raw[1].nonce = 2 /\ ~last.raw[1].executed
    /\ last.raw[2].nonce = 1 /\ ~last.raw[2].executed
    /\ last.result = <<last.raw[1]>>

\* the index of the first entry of the sequence that satisfies P, or one
\* more than its length
FirstIndex(seq, P(_)) ==
    IF \E i \in 1..Len(seq) : P(seq[i])
    THEN CHOOSE i \in 1..Len(seq) : P(seq[i]) /\ \A j \in 1..(i - 1) : ~P(seq[j])
    ELSE Len(seq) + 1

\* C18: with confirmed=False no executed entry is yielded and nothing is
\* yielded from the first executed entry met (one not above ending_nonce)
\* onwards; with confirmed=True every yielded entry has at least as many
\* confirmations as it requires
C18_ConfirmedFilter ==
    Queried =>
        LET a == last.args
            Met(e) == e.executed /\ (a.ending_nonce = None \/ e.nonce <= a.ending_nonce[1])
            k == FirstIndex(last.raw, Met)
        IN  /\ a.confirmed = "False" =>
                  /\ \A i \in 1..Len(last.result) : ~last.result[i].executed
                  /\ Len(last.result) <= k - 1
                  /\ \A i \in 1..Len(last.result) :
                        \E j \in 1..(k - 1) : last.raw[j] = last.result[i]
                  /\ \A j \in k..Len(last.raw) :
                        (\A i \in 1..(k - 1) : last.raw[i] /= last.raw[j])
                            => last.raw[j] \notin Range(last.result)
            /\ a.confirmed = "True" =>
                  \A i \in 1..Len(last.result) :
                      Len(last.result[i].confirmations)
                          >= last.result[i].confirmations_required

\* confirmed=False: an executed entry comes first and a pending entry after
\* it, and nothing is yielded
C18_Witness ==
    /\ Queried
    /\ last.args.confirmed = "False"
    /\ DefaultArguments([last.args EXCEPT !.confirmed = "None"])
    /\ Len(last.raw) = 2
    /\ last.raw[1].executed
    /\ ~last.raw[2].executed /\ last.raw[2].nonce >= last.next_nonce
    /\ last.result = <<>>

\* C19: every entry yielded for starting_nonce s and ending_nonce e has
\* s <= nonce, and nonce <= e when e is given; entries above e are passed
\* over and the iteration ends at the first entry below s: with no other
\* filter, what is yielded is the entries before that one that are not
\* above e and not orphaned
C19_NonceRange ==
    Queried =>
        LET a == last.args
            Below(e) == e.nonce < a.starting_nonce
            InRange(e) == a.ending_nonce = None \/ e.nonce <= a.ending_nonce[1]
            k == FirstIndex(last.raw, Below)
        IN  /\ \A i \in 1..Len(last.result) :
                  ~Below(last.result[i]) /\ InRange(last.result[i])
            /\ (/\ a.confirmed = "None"
                /\ a.filter_by_ids = None
                /\ a.filter_by_missing_signers = None)
               => last.result =
                     SelectSeq(SubSeq(last.raw, 1, k - 1),
                               LAMBDA e : InRange(e) /\ ~Orphaned(e, last.next_nonce))

\* ending_nonce 1: the entry of nonce 2 is passed over and the entry of
\* nonce 1 after it is yielded
C19_Witness ==
    /\ Queried
    /\ last.args.ending_nonce = <<1>>
    /\ last.args.starting_nonce = 1
    /\ Len(last.raw) = 2
    /\ last.raw[1].nonce = 2
    /\ last.raw[2].nonce = 1
    /\ last.result = <<last.raw[2]>>

\* C20 as stated: when filter_by_ids is given, be it the empty set, every
\* yielded entry has its tx_id in the set, and every entry that passes the
\* other filters and has its tx_id in the set is yielded
C20_FilterByIds ==
    (Queried /\ last.args.filter_by_ids /= None) =>
        LET others == get_transactions_of(last.raw, last.next_nonce,
                                          [last.args EXCEPT !.filter_by_ids = None])
        IN  /\ \A i \in 1..Len(last.result) :
                  last.result[i].safe_tx_hash \in last.args.filter_by_ids[1]
            /\ last.result =
                  SelectSeq(others,
                            LAMBDA e : e.safe_tx_hash \in last.args.filter_by_ids[1])

\* C21 as stated: when filter_by_missing_signers is given, be it the empty
\* set, an entry is yielded only if a signer of the set is absent from the
\* owners of its confirmations
C21_FilterByMissingSigners ==
    (Queried /\ last.args.filter_by_missing_signers /= None) =>
        \A i \in 1..Len(last.result) :
            \E signer \in last.args.filter_by_missing_signers[1] :
                signer \notin ConfOwners(last.result[i])

\* C22: after any sequence of post_transaction and post_signatures calls the
\* raw sequence of the in-memory index yields every stored proposal, and no
\* entry after an entry of a smaller nonce, also when proposals share a nonce
C22_RawDescending ==
    LET raw == _all_transactions(transactions, transactions_by_nonce)
    IN  /\ \A i, j \in 1..Len(raw) : i < j => raw[i].nonce >= raw[j].nonce
        /\ \A id \in DOMAIN transactions :
              \E i \in 1..Len(raw) : raw[i] = transactions[id]

\* a call of nonce 0 and its rejection are both stored, below an entry of
\* nonce 1 that was posted before one of them
C22_Witness ==
    LET raw == _all_transactions(transactions, transactions_by_nonce)
    IN  /\ last.op = "post_transaction"
        /\ last.result = "None"
        /\ Len(raw) = 3
        /\ raw[1].nonce = 1
        /\ raw[2].nonce = 0 /\ raw[3].nonce = 0
        /\ raw[2].safe_tx_hash /= raw[3].safe_tx_hash
        /\ last.tx_id = raw[3].safe_tx_hash

(***************************************************************************)
(* SafeClient._all_transactions, the generator over the pages of the       *)
(* transaction service, and the loops that consume it.  The service        *)
(* answers each request with a page of its choice.                         *)
(***************************************************************************)
\* largest number of pages the service hands out in one iteration
MaxPages == 2
\* largest number of items of a page
MaxPageLen == 2

\* an item of data["results"]: a multisig transaction with isExecuted true
\* or false, or an incoming transfer, which has no isExecuted
PageItems ==
    {[isExecuted |-> IF x THEN "True" ELSE "False", txn |-> QueryEntry(n, x, <<ACCT_0>>)] :
        n \in 0..1, x \in BOOLEAN}
    \cup {[isExecuted |-> "absent", txn |-> QueryEntry(0, FALSE, <<>>)]}

PageResults == UNION {[1..k -> PageItems] : k \in 0..MaxPageLen}

\* the arguments the consuming loops are called with
PageArguments ==
    {[confirmed |-> c, starting_nonce |-> s, ending_nonce |-> None,
      filter_by_ids |-> None, filter_by_missing_signers |-> None] :
        c \in {"None", "False"}, s \in 0..1}

\* one pass of the loop of get_transactions over an entry: "continue",
\* "break" or "yield"
LoopBody(txn, next_nonce, a) ==
    LET is_confirmed == Len(txn.confirmations) >= txn.confirmations_required
    IN  IF a.ending_nonce /= None /\ txn.nonce > a.ending_nonce[1] THEN "continue"
        ELSE IF txn.nonce < a.starting_nonce THEN "break"
        ELSE IF a.confirmed = "False" /\ txn.executed THEN "break"
        ELSE IF a.confirmed = "True" /\ ~is_confirmed THEN "continue"
        ELSE IF txn.nonce < next_nonce /\ ~txn.executed THEN "continue"
        ELSE IF a.filter_by_ids /= None /\ a.filter_by_ids[1] /= {}
                /\ txn.safe_tx_hash \notin a.filter_by_ids[1] THEN "continue"
        ELSE IF a.filter_by_missing_signers /= None
                /\ a.filter_by_missing_signers[1] /= {}
                /\ a.filter_by_missing_signers[1] \subseteq ConfOwners(txn) THEN "continue"
        ELSE "yield"

\* a slip: the page after page k is asked for whatever cursor page k named
next_url_assumed(next, k) == IF k < MaxPages THEN <<k + 1>> ELSE None
\* `url = data.get("next")`: the cursor page k named, or None
next_url(next, k) == next

InitPages ==
    /\ threshold = 2
    /\ container = {ACCT_3}
    /\ chain_nonce = 0
    /\ approvedHashes = {}
    /\ transactions = <<>>
    /\ transactions_by_nonce = <<>>
    /\ last = NoCall
    /\ delegates = <<>>
    /\ data_folder = <<>>
    /\ _accounts = {}
    /\ proposers = NoProposers

Iterating == last.op = "_all_transactions"

\* a consumer calls get_transactions (a loop to the end, or new_nonce taking
\* the first entry): the generator is created and has requested nothing
StartIteration ==
    /\ Idle
    /\ \E consumer \in {"get_transactions", "new_nonce"}, a \in PageArguments,
          next_nonce \in 0..1 :
          /\ consumer = "new_nonce" => a.confirmed = "False" /\ a.starting_nonce = 0
          /\ last' = [op |-> "_all_transactions", consumer |-> consumer, args |-> a,
                      next_nonce |-> next_nonce, url |-> <<1>>, fetched |-> FALSE,
                      results |-> <<>>, next |-> None, pos |-> 1, requests |-> <<>>,
                      yielded |-> 0, phase |-> "running"]
    /\ UNCHANGED <<proposers, delegates, data_folder, _accounts, threshold, container, chain_nonce, approvedHashes, transactions,
                   transactions_by_nonce>>

\* `while url: response = self._get(url); data = response.json()`
RequestPage ==
    /\ Iterating
    /\ last.phase = "running"
    /\ ~last.fetched
    /\ last.url /= None
    /\ \E results \in PageResults,
          next \in {None} \cup (IF last.url[1] < MaxPages THEN {<<last.url[1] + 1>>} ELSE {}) :
          last' = [last EXCEPT !.requests = Append(@, last.url[1]),
                               !.fetched = TRUE, !.results = results,
                               !.next = next, !.pos = 1]
    /\ UNCHANGED <<proposers, delegates, data_folder, _accounts, threshold, container, chain_nonce, approvedHashes, transactions,
                   transactions_by_nonce>>

\* `for txn in data.get("results")`: the next item; an item with isExecuted
\* is yielded to the consuming loop, which goes on or stops
ConsumeEntry ==
    /\ Iterating
    /\ last.phase = "running"
    /\ last.fetched
    /\ last.pos <= Len(last.results)
    /\ LET item == last.results[last.pos]
           verdict == IF item.isExecuted = "absent" THEN "continue"
                      ELSE LoopBody(item.txn, last.next_nonce, last.args)
       IN  last' = IF verdict = "break"
                   THEN [last EXCEPT !.phase = "stopped"]
                   ELSE IF verdict = "yield" /\ last.consumer = "new_nonce"
                   THEN [last EXCEPT !.phase = "stopped", !.yielded = @ + 1]
                   ELSE IF verdict = "yield"
                   THEN [last EXCEPT !.pos = @ + 1, !.yielded = @ + 1]
                   ELSE [last EXCEPT !.pos = @ + 1]
    /\ UNCHANGED <<proposers, delegates, data_folder, _accounts, threshold, container, chain_nonce, approvedHashes, transactions,
                   transactions_by_nonce>>

\* the end of the for loop: `url = data.get("next")`, and the generator is
\* exhausted when there is none
EndOfPage ==
    /\ Iterating
    /\ last.phase = "running"
    /\ last.fetched
    /\ last.pos > Len(last.results)
    /\ LET url == next_url(last.next, last.url[1])
       IN  last' = [last EXCEPT !.url = url, !.fetched = FALSE,
                                !.phase = IF url = None THEN "exhausted" ELSE "running"]
    /\ UNCHANGED <<proposers, delegates, data_folder, _accounts, threshold, container, chain_nonce, approvedHashes, transactions,
                   transactions_by_nonce>>

NextPages ==
    \/ StartIteration
    \/ RequestPage
    \/ ConsumeEntry
    \/ EndOfPage
    \/ Return

PageSpec == InitPages /\ [][NextPages]_vars

\* C23: a page is requested only by a running iteration, the first page
\* first and page k+1 only when every item of page k was gone through and
\* page k named it as next; once the consumer stopped, nothing more is
\* requested and the iteration is only dropped; no step changes the index
\* or the chain; every call starts with nothing requested, at the first page
C23_LazyPages ==
    [][/\ (Iterating /\ Iterating' /\ last'.requests /= last.requests)
          => /\ last.phase = "running"
             /\ last.url /= None
             /\ last'.requests = Append(last.requests, last.url[1])
             /\ last.requests = <<>> => last.url = <<1>>
             /\ last.requests /= <<>> =>
                   /\ last.pos > Len(last.results)
                   /\ last.next = last.url
                   /\ last.url[1] = last.requests[Len(last.requests)] + 1
       /\ (Iterating /\ last.phase \in {"stopped", "exhausted"}) => last' = NoCall
       /\ (Idle /\ Iterating') => last'.requests = <<>> /\ last'.url = <<1>>
       /\ UNCHANGED <<proposers, delegates, data_folder, _accounts, threshold, container, chain_nonce, approvedHashes, transactions,
                      transactions_by_nonce>>
      ]_vars

\* new_nonce took the first pending entry of the first page: the page named
\* a next page, which was never requested
C23_Witness ==
    /\ Iterating
    /\ last.consumer = "new_nonce"
    /\ last.phase = "stopped"
    /\ last.yielded = 1
    /\ last.next = <<2>>
    /\ last.requests = <<1>>
    /\ last.pos < Len(last.results)

(***************************************************************************)
(* MultiSend: the batch of sub-calls, its packed encoding, the decoding of *)
(* a multiSend calldata and the wrapping transaction record.               *)
(***************************************************************************)
\* largest number of sub-calls of a batch
MaxCalls == 2
\* largest number of proposals of a batch the index holds
MaxProposed == 1

\* OperationType
OperationType_CALL == 0
OperationType_DELEGATECALL == 1

\* the address the MultiSend contract is deployed at, 0x40A2..130D
MULTISEND_ADDRESS == <<64,162,172,203,217,43,202,147,139,2,1,14,23,165,184,146,155,73,19,13>>
\* the selector of multiSend(bytes), 0x8d80ff0a
MULTISEND_SELECTOR == <<141, 128, 255, 10>>

RECURSIVE to_bytes(_, _)
\* int.to_bytes(width, "big"), as encode_packed writes a uint
to_bytes(n, width) ==
    IF width = 0 THEN <<>>
    ELSE IF n = 0 THEN [i \in 1..width |-> 0]
    ELSE Append(to_bytes(n \div 256, width - 1), n % 256)

RECURSIVE from_bytes(_)
\* int.from_bytes(b, "big")
from_bytes(b) ==
    IF \A i \in 1..Len(b) : b[i] = 0 THEN 0
    ELSE IF b[1] = 0
    THEN from_bytes(SubSeq(b, CHOOSE i \in 1..Len(b) :
                                  b[i] /= 0 /\ \A j \in 1..(i - 1) : b[j] = 0, Len(b)))
    ELSE 256 * from_bytes(SubSeq(b, 1, Len(b) - 1)) + b[Len(b)]

\* an address as the batch holds it: the checksummed text of 20 bytes
ChecksumAddress(b) == [checksummed |-> TRUE, bytes |-> b]
\* convert(buffer.read(20), AddressType)
convert_AddressType(b) == ChecksumAddress(b)
\* the 20 bytes encode_packed writes for an "address"
address_bytes(a) == a.bytes

\* a slip: the length of the payload is written in one byte less
encode_packed_call_short_length(call) ==
    <<OperationType_CALL>> \o address_bytes(call.target) \o to_bytes(call.value, 32)
        \o to_bytes(Len(call.callData), 31) \o call.callData
\* encode_packed(["uint8", "address", "uint256", "uint256", "bytes"], ...) of
\* one sub-call; the operation written is always CALL
encode_packed_call(call) ==
    <<OperationType_CALL>> \o address_bytes(call.target) \o to_bytes(call.value, 32)
        \o to_bytes(Len(call.callData), 32) \o call.callData

\* MultiSend.encoded_calls
encoded_calls(calls) == [i \in 1..Len(calls) |-> encode_packed_call(calls[i])]

\* handler.encode_input(packed): the ABI encoding of multiSend(bytes)
encode_input(packed) ==
    MULTISEND_SELECTOR \o to_bytes(32, 32) \o to_bytes(Len(packed), 32)
        \o packed \o Zeros((32 - (Len(packed) % 32)) % 32)

\* contract.decode_input(calldata)["transactions"]
decode_input(calldata) ==
    LET offset == 4 + from_bytes(SubSeq(calldata, 5, 36))
        length == from_bytes(SubSeq(calldata, offset + 1, offset + 32))
    IN  SubSeq(calldata, offset + 33, offset + 32 + length)

\* BytesIO.read(n) at position pos: at most n bytes, fewer at the end
buffer_read(buffer, pos, n) ==
    SubSeq(buffer, pos + 1, IF pos + n <= Len(buffer) THEN pos + n ELSE Len(buffer))

RECURSIVE read_calls(_, _)
\* the loop of add_from_calldata from position pos of the buffer
read_calls(buffer, pos) ==
    IF pos >= Len(buffer) THEN <<>>
    ELSE LET operation == from_bytes(buffer_read(buffer, pos, 1))
             target == convert_AddressType(buffer_read(buffer, pos + 1, 20))
             value == from_bytes(buffer_read(buffer, pos + 21, 32))
             length == from_bytes(buffer_read(buffer, pos + 53, 32))
             data == buffer_read(buffer, pos + 85, length)
         IN  <<[operation |-> operation, target |-> target, value |-> value,
                callData |-> data]>> \o read_calls(buffer, pos + 85 + length)

\* a slip: each call read is put in front of those read before it
add_from_calldata_reversed(calls, calldata) ==
    LET read == read_calls(decode_input(calldata), 0)
    IN  calls \o [i \in 1..Len(read) |-> read[Len(read) + 1 - i]]
\* MultiSend.add_from_calldata: the calls of the batch after the call
add_from_calldata(calls, calldata) == calls \o read_calls(decode_input(calldata), 0)

\* the targets, values and payloads of the sub-calls of the model
SubCallTargets == {ChecksumAddress(RECEIVER), ChecksumAddress(ACCT_3)}
SubCallValues == {0, 300}
SubCallData == {<<>>, <<0, 255, 0>>}

\* what MultiSend.add appends
SubCalls ==
    {[target |-> t, value |-> v, callData |-> d] :
        t \in SubCallTargets, v \in SubCallValues, d \in SubCallData}

\* the non-empty batches built with MultiSend.add
Batches == UNION {[1..k -> SubCalls] : k \in 1..MaxCalls}

\* MultiSend().add_from_calldata(batch.handler.encode_input(b"".join(batch.encoded_calls)))
EncodeDecode ==
    /\ Idle
    /\ \E calls \in Batches :
        LET calldata == encode_input(JoinBytes(encoded_calls(calls)))
        IN  last' = [op |-> "encode_decode", calls |-> calls, calldata |-> calldata,
                     result |-> add_from_calldata(<<>>, calldata)]
    /\ UNCHANGED <<proposers, delegates, data_folder, _accounts, threshold, container, chain_nonce, approvedHashes, transactions,
                   transactions_by_nonce>>

\* one packed record of a multiSend payload as the contract reads it
PackedCall(operation, call) ==
    <<operation>> \o address_bytes(call.target) \o to_bytes(call.value, 32)
        \o to_bytes(Len(call.callData), 32) \o call.callData

\* the well-formed calldata of multiSend(bytes): whole records, each of
\* operation CALL or DELEGATECALL
Calldatas ==
    UNION {{encode_input(JoinBytes([i \in 1..Len(calls) |-> PackedCall(ops[i], calls[i])])) :
               ops \in [1..Len(calls) -> {OperationType_CALL, OperationType_DELEGATECALL}]} :
           calls \in Batches}

\* MultiSend().add_from_calldata(calldata), and the batch encoded again
DecodeEncode ==
    /\ Idle
    /\ \E calldata \in Calldatas :
        LET calls == add_from_calldata(<<>>, calldata)
        IN  last' = [op |-> "decode_encode", calldata |-> calldata, calls |-> calls,
                     result |-> encode_input(JoinBytes(encoded_calls(calls)))]
    /\ UNCHANGED <<proposers, delegates, data_folder, _accounts, threshold, container, chain_nonce, approvedHashes, transactions,
                   transactions_by_nonce>>

\* the keyword arguments of as_safe_tx that the model passes: value, nonce
SafeTxKwargs ==
    {[value |-> v, nonce |-> n] : v \in {None, <<3>>, <<5>>}, n \in {None, <<0>>}}

RECURSIVE SumOfValues(_)
\* sum(call["value"] for call in self.calls)
SumOfValues(calls) ==
    IF calls = <<>> THEN 0 ELSE Head(calls).value + SumOfValues(Tail(calls))

\* MultiSend._validate_safe_tx: the error raised, if any
_validate_safe_tx(calls, safe_tx) ==
    IF SumOfValues(calls) > safe_tx.value THEN "ValueRequired" ELSE ""

\* a slip: the operation of the wrapping record is left at CALL
MultiSend_as_safe_tx_as_call(calls, kwargs) ==
    LET txn == [receiver |-> MULTISEND_ADDRESS, value |-> 0,
                data |-> encode_input(JoinBytes(encoded_calls(calls))), nonce |-> None]
        safe_tx == create_safe_tx(txn, new_nonce(transactions, transactions_by_nonce))
    IN  [safe_tx EXCEPT
            !.value = IF kwargs.value /= None THEN kwargs.value[1] ELSE @,
            !.nonce = IF kwargs.nonce /= None THEN kwargs.nonce[1] ELSE @]
\* MultiSend.as_safe_tx(safe, **safe_tx_kwargs): create_safe_tx of the
\* transaction of the handler, with operation=DELEGATECALL and the keyword
\* arguments that are not None
MultiSend_as_safe_tx(calls, kwargs) ==
    LET txn == [receiver |-> MULTISEND_ADDRESS, value |-> 0,
                data |-> encode_input(JoinBytes(encoded_calls(calls))), nonce |-> None]
        safe_tx == create_safe_tx(txn, new_nonce(transactions, transactions_by_nonce))
    IN  [safe_tx EXCEPT
            !.operation = OperationType_DELEGATECALL,
            !.value = IF kwargs.value /= None THEN kwargs.value[1] ELSE @,
            !.nonce = IF kwargs.nonce /= None THEN kwargs.nonce[1] ELSE @]

\* MultiSend.propose(safe, submitter=..., **safe_tx_kwargs)
MultiSend_propose(calls, kwargs, submitter, signs) ==
    LET safe_tx == MultiSend_as_safe_tx(calls, kwargs)
        error == _validate_safe_tx(calls, safe_tx)
        p == propose_safe_tx(transactions, transactions_by_nonce, safe_tx, submitter,
                             <<>>, signs)
    IN  IF error /= ""
        THEN [result |-> error, safe_tx |-> safe_tx, txs |-> transactions,
              byn |-> transactions_by_nonce]
        ELSE [result |-> IF p.error = "" THEN "tx_id" ELSE p.error, safe_tx |-> safe_tx,
              txs |-> p.txs, byn |-> p.byn]

\* MultiSend.as_transaction(safe, impersonate=..., **txn_kwargs): the record
\* and the signatures handed to create_execute_transaction
MultiSend_as_transaction(calls, impersonate, kwargs, willing) ==
    LET safe_tx == MultiSend_as_safe_tx(calls, kwargs)
    IN  [result |-> "txn", safe_tx |-> safe_tx,
         signatures |-> IF impersonate THEN <<>>
                        ELSE get_signatures(safe_tx, local_signers, willing)]

\* the batches the wrapping operations are applied to: one call without
\* value, and a call without value followed by a call of value 5
WrappedBatches ==
    {<<[target |-> ChecksumAddress(RECEIVER), value |-> 0, callData |-> <<7>>]>>,
     <<[target |-> ChecksumAddress(RECEIVER), value |-> 0, callData |-> <<7>>],
       [target |-> ChecksumAddress(ACCT_3), value |-> 5, callData |-> <<>>]>>}

\* batch.as_safe_tx(safe, value=..., nonce=...)
AsSafeTx ==
    /\ Idle
    /\ \E calls \in WrappedBatches, kwargs \in SafeTxKwargs :
          last' = [op |-> "as_safe_tx", calls |-> calls, kwargs |-> kwargs,
                   result |-> "safe_tx", safe_tx |-> MultiSend_as_safe_tx(calls, kwargs)]
    /\ UNCHANGED <<proposers, delegates, data_folder, _accounts, threshold, container, chain_nonce, approvedHashes, transactions,
                   transactions_by_nonce>>

\* batch.as_transaction(safe, impersonate=..., value=..., nonce=...)
AsTransaction ==
    /\ Idle
    /\ \E calls \in WrappedBatches, kwargs \in SafeTxKwargs, impersonate \in BOOLEAN,
          willing \in SUBSET Range(local_signers) :
        LET r == MultiSend_as_transaction(calls, impersonate, kwargs, willing)
        IN  last' = [op |-> "as_transaction", calls |-> calls, kwargs |-> kwargs,
                     result |-> r.result, safe_tx |-> r.safe_tx]
    /\ UNCHANGED <<proposers, delegates, data_folder, _accounts, threshold, container, chain_nonce, approvedHashes, transactions,
                   transactions_by_nonce>>

\* batch.propose(safe, submitter=..., value=..., nonce=...)
ProposeBatch ==
    /\ Idle
    /\ \E calls \in WrappedBatches, kwargs \in SafeTxKwargs,
          submitter \in {None, ACCT_0}, signs \in BOOLEAN :
        LET r == MultiSend_propose(calls, kwargs, submitter, signs)
        IN  /\ Cardinality(DOMAIN r.txs) <= MaxProposed
            /\ IndexSize(r.txs, r.byn) <= 2 * MaxProposed
            /\ last' = [op |-> "propose", calls |-> calls, kwargs |-> kwargs,
                        result |-> r.result, safe_tx |-> r.safe_tx]
            /\ transactions' = r.txs
            /\ transactions_by_nonce' = r.byn
    /\ UNCHANGED <<proposers, delegates, data_folder, _accounts, threshold, container, chain_nonce, approvedHashes>>

NextBatch ==
    \/ EncodeDecode
    \/ DecodeEncode
    \/ AsSafeTx
    \/ AsTransaction
    \/ ProposeBatch
    \/ Return

BatchSpec == InitIndex /\ [][NextBatch]_vars

\* C24: for every non-empty batch of sub-calls, empty payloads included,
\* decoding its encoded payload into an empty batch gives as many calls, in
\* the same order, each with the target, value and call data of the original
C24_EncodeDecode ==
    last.op = "encode_decode" =>
        /\ Len(last.result) = Len(last.calls)
        /\ \A i \in 1..Len(last.calls) :
              /\ last.result[i].target = last.calls[i].target
              /\ last.result[i].value = last.calls[i].value
              /\ last.result[i].callData = last.calls[i].callData

\* two sub-calls, the first with an empty payload and a value of two bytes,
\* came back as they were
C24_Witness ==
    /\ last.op = "encode_decode"
    /\ Len(last.calls) = 2
    /\ last.calls[1].callData = <<>>
    /\ last.calls[1].value = 300
    /\ last.calls[2].callData = <<0, 255, 0>>
    /\ last.calls[1].target /= last.calls[2].target
    /\ Len(last.result) = 2
    /\ last.result[1].value = 300

\* C25 as stated: for every well-formed multiSend calldata, the sub-calls
\* added by add_from_calldata to an empty batch encode again to the same
\* calldata, byte for byte
C25_DecodeEncodeAsStated ==
    last.op = "decode_encode" => last.result = last.calldata

\* C25, amended: the calldata is reproduced byte for byte when every one of
\* its sub-calls has operation CALL
C25_DecodeEncode ==
    (/\ last.op = "decode_encode"
     /\ \A i \in 1..Len(last.calls) : last.calls[i].operation = OperationType_CALL)
    => /\ last.result = last.calldata
       /\ decode_input(last.result) =
             JoinBytes([i \in 1..Len(last.calls) |->
                          <<last.calls[i].operation>> \o last.calls[i].target.bytes
                              \o to_bytes(last.calls[i].value, 32)
                              \o to_bytes(Len(last.calls[i].callData), 32)
                              \o last.calls[i].callData])

\* a calldata of two CALL sub-calls, one with a payload, was decoded and
\* encoded again to itself
C25_Witness ==
    /\ last.op = "decode_encode"
    /\ Len(last.calls) = 2
    /\ \A i \in 1..2 : last.calls[i].operation = OperationType_CALL
    /\ last.calls[1].callData = <<0, 255, 0>>
    /\ last.calls[2].value = 300
    /\ last.result = last.calldata

\* one of the operations that build the wrapping record of a batch returned
Wrapped == last.op \in {"as_safe_tx", "as_transaction", "propose"}

\* C26 as stated: as_safe_tx, and propose and as_transaction that use it,
\* fail with ValueRequired exactly when the value of the wrapping record is
\* less than the sum of the values of the sub-calls
C26_ValueRequired ==
    Wrapped =>
        (last.result = "ValueRequired" <=> last.safe_tx.value < SumOfValues(last.calls))

\* C27: the record as_safe_tx yields has operation DELEGATECALL, the
\* MultiSend contract as target, as data the multiSend call of the packed
\* sub-calls joined in list order, and the new_nonce of the wallet as nonce
\* when the caller gives none
C27_WrappingRecord ==
    last.op = "as_safe_tx" =>
        /\ last.safe_tx.operation = OperationType_DELEGATECALL
        /\ last.safe_tx.to = MULTISEND_ADDRESS
        /\ SubSeq(last.safe_tx.data, 1, 4) = MULTISEND_SELECTOR
        /\ decode_input(last.safe_tx.data) =
              JoinBytes([i \in 1..Len(last.calls) |->
                           PackedCall(OperationType_CALL, last.calls[i])])
        /\ last.kwargs.nonce = None =>
              last.safe_tx.nonce = new_nonce(transactions, transactions_by_nonce)

\* a batch of two sub-calls wrapped with no nonce given while a proposal of
\* nonce 0 is pending: the record has nonce 1
C27_Witness ==
    /\ last.op = "as_safe_tx"
    /\ Len(last.calls) = 2
    /\ last.kwargs.nonce = None
    /\ PendingIds /= {}
    /\ last.safe_tx.nonce = 1
    /\ last.safe_tx.operation = OperationType_DELEGATECALL

UnexecutedTxData_as_safe_tx_always(entry, version) == as_safe_tx(entry)

\* UnexecutedTxData.as_safe_tx(version, chain_id): a definition before
\* 1.3.0 has no baseGas (its dataGas keeps its default, 0) and the record is
\* built without it
UnexecutedTxData_as_safe_tx(entry, version) ==
    LET tx_def == IF version[2] < 3
                  THEN {"to", "value", "data", "operation", "safeTxGas", "dataGas",
                        "gasPrice", "gasToken", "refundReceiver", "nonce"}
                  ELSE {"to", "value", "data", "operation", "safeTxGas", "baseGas",
                        "gasPrice", "gasToken", "refundReceiver", "nonce"}
    IN  IF "baseGas" \notin tx_def
        THEN [to |-> entry.to, value |-> entry.value, data |-> entry.data,
              operation |-> entry.operation, gasToken |-> entry.gas_token,
              safeTxGas |-> entry.safe_tx_gas, dataGas |-> 0,
              gasPrice |-> entry.gas_price, refundReceiver |-> entry.refund_receiver,
              nonce |-> entry.nonce]
        ELSE as_safe_tx(entry)

\* self.client.get_safe_tx(safe_tx_id).as_safe_tx(version=str(self.version), ...)
RecordOfEntry ==
    /\ Idle
    /\ \E to \in {RECEIVER, ACCT_1}, v \in {0, 5}, n \in 0..1, g \in {0, 7} :
       \E version \in {<<1, 1, 1>>, <<1, 2, 0>>, <<1, 3, 0>>, <<1, 4, 1>>} :
        LET safe_tx == [create_safe_tx([receiver |-> to, value |-> v, data |-> 0,
                                        nonce |-> <<n>>], 0) EXCEPT !.baseGas = g]
            entry == from_safe_tx(safe_tx, threshold)
        IN  last' = [op |-> "as_safe_tx", entry |-> entry, version |-> version,
                     safe_tx |-> UnexecutedTxData_as_safe_tx(entry, version)]
    /\ UNCHANGED <<proposers, delegates, data_folder, _accounts, threshold, container, chain_nonce, approvedHashes, transactions,
                   transactions_by_nonce>>

\* C29: for a wallet version whose definition has no baseGas the record
\* built of an index entry has no baseGas member at all, whatever the
\* entry's base_gas; for a later version its baseGas is the entry's base_gas,
\* and every other member is the entry's in both cases
C29_BaseGasByVersion ==
    last.op = "as_safe_tx" =>
        /\ IF last.version \in {<<1, 1, 1>>, <<1, 2, 0>>}
           THEN "baseGas" \notin DOMAIN last.safe_tx
           ELSE /\ "baseGas" \in DOMAIN last.safe_tx
                /\ last.safe_tx.baseGas = last.entry.base_gas
        /\ last.safe_tx.to = last.entry.to
        /\ last.safe_tx.value = last.entry.value
        /\ last.safe_tx.nonce = last.entry.nonce
        /\ last.safe_tx.gasToken = last.entry.gas_token
        /\ last.safe_tx.refundReceiver = last.entry.refund_receiver

\* an entry of base_gas 7 built for version 1.2.0: the record has no baseGas
C29_Witness ==
    /\ last.op = "as_safe_tx"
    /\ last.version = <<1, 2, 0>>
    /\ last.entry.base_gas = 7
    /\ "baseGas" \notin DOMAIN last.safe_tx
    /\ last.safe_tx.nonce = last.entry.nonce

\* an address as the remote format carries it: a plain string <<"str", a>>
\* or an object <<"dict", [value |-> a]>>
RawAddresses(a) == {<<"str", a>>, <<"dict", [value |-> a]>>}

\* clean_api_address
clean_api_address(data) ==
    IF data[1] = "dict" THEN <<"str", data[2].value>> ELSE data

\* validation of a field annotated AddressType: a string converts to the
\* address it spells, no conversion handles an object (None here)
AddressType(data) == IF data[1] = "str" THEN <<data[2]>> ELSE None

\* validation of a field annotated Address: clean_api_address runs first
Address(data) == AddressType(clean_api_address(data))

\* UnexecutedTxData.model_validate(txn): safe, to, gasToken, refundReceiver
\* and each confirmation's owner are AddressType fields
UnexecutedTxData_model_validate(txn) ==
    LET fields == <<txn.safe, txn.to, txn.gasToken, txn.refundReceiver>>
                     \o [i \in 1..Len(txn.confirmations) |-> txn.confirmations[i].owner]
    IN  IF \E i \in 1..Len(fields) : AddressType(fields[i]) = None
        THEN [error |-> "ConversionError", entry |-> None]
        ELSE [error |-> "",
              entry |-> <<[safe |-> AddressType(txn.safe)[1],
                           to |-> AddressType(txn.to)[1],
                           gas_token |-> AddressType(txn.gasToken)[1],
                           refund_receiver |-> AddressType(txn.refundReceiver)[1],
                           nonce |-> txn.nonce,
                           confirmations |->
                               [i \in 1..Len(txn.confirmations) |->
                                   [owner |-> AddressType(txn.confirmations[i].owner)[1]]]]>>]

\* SafeDetails.model_validate(response.json()): address and owners are
\* Address fields, guard is an AddressType field
SafeDetails_model_validate(data) ==
    LET address == Address(data.address)
        owners == [i \in 1..Len(data.owners) |-> Address(data.owners[i])]
        guard == AddressType(data.guard)
    IN  IF address = None \/ guard = None \/ \E i \in 1..Len(owners) : owners[i] = None
        THEN [error |-> "ConversionError", details |-> None]
        ELSE [error |-> "",
              details |-> <<[address |-> address[1],
                             owners |-> [i \in 1..Len(owners) |-> owners[i][1]],
                             guard |-> guard[1]]>>]

\* yield UnexecutedTxData.model_validate(txn)
ValidateEntry ==
    /\ Idle
    /\ \E s \in RawAddresses(SAFE_ADDRESS), t \in RawAddresses(RECEIVER),
          g \in RawAddresses(ZERO_ADDRESS), r \in RawAddresses(ZERO_ADDRESS),
          o \in RawAddresses(ACCT_0), n \in 0..1 :
        LET txn == [safe |-> s, to |-> t, gasToken |-> g, refundReceiver |-> r,
                    nonce |-> n, confirmations |-> <<[owner |-> o]>>]
        IN  last' = [op |-> "model_validate", txn |-> txn,
                     result |-> UnexecutedTxData_model_validate(txn)]
    /\ UNCHANGED <<proposers, delegates, data_folder, _accounts, threshold, container, chain_nonce, approvedHashes, transactions,
                   transactions_by_nonce>>

\* return SafeDetails.model_validate(response.json())
ValidateDetails ==
    /\ Idle
    /\ \E a \in RawAddresses(SAFE_ADDRESS), o1 \in RawAddresses(ACCT_0),
          o2 \in RawAddresses(ACCT_3), g \in RawAddresses(ZERO_ADDRESS) :
        LET data == [address |-> a, owners |-> <<o1, o2>>, guard |-> g]
        IN  last' = [op |-> "safe_details", data |-> data,
                     result |-> SafeDetails_model_validate(data)]
    /\ UNCHANGED <<proposers, delegates, data_folder, _accounts, threshold, container, chain_nonce, approvedHashes, transactions,
                   transactions_by_nonce>>

NextRecord ==
    \/ RecordOfEntry
    \/ ValidateEntry
    \/ ValidateDetails
    \/ Return

RecordSpec == InitIndex /\ [][NextRecord]_vars

\* the address a raw value carries, in either form
PlainAddress(data) == IF data[1] = "dict" THEN data[2].value ELSE data[2]

\* C30: a transaction record is reconstructed from an index-client entry
\* whose address fields (safe, to, gas token, refund receiver, confirmation
\* owner) are plain strings or {value: string} objects, and carries the
\* plain address in both cases
C30_EnvelopeAccepted ==
    last.op = "model_validate" =>
        /\ last.result.error = ""
        /\ LET entry == last.result.entry[1]
           IN  /\ entry.safe = PlainAddress(last.txn.safe)
               /\ entry.to = PlainAddress(last.txn.to)
               /\ entry.gas_token = PlainAddress(last.txn.gasToken)
               /\ entry.refund_receiver = PlainAddress(last.txn.refundReceiver)
               /\ \A i \in 1..Len(entry.confirmations) :
                     entry.confirmations[i].owner =
                         PlainAddress(last.txn.confirmations[i].owner)

\* C31: sign_transaction with no submitter given fails with NoLocalSigners
\* when no current signer is under local control, whether submitting or
\* not, with no signer asked and nothing posted; otherwise the first local
\* signer in signer-list order is the submitter
C31_NoLocalSigners ==
    [][(/\ Idle
        /\ last'.op = "sign_transaction"
        /\ last'.submitter = None)
       => IF \A i \in 1..Len(OWNERS) : OWNERS[i] \notin container
          THEN /\ last'.result = "NoLocalSigners"
               /\ last'.asked = <<>>
               /\ last'.new_signatures = <<>>
               /\ last'.posted = None
               /\ transactions' = transactions
               /\ transactions_by_nonce' = transactions_by_nonce
          ELSE /\ last'.result /= "NoLocalSigners"
               /\ \E i \in 1..Len(OWNERS) :
                     /\ last'.submitter_account = OWNERS[i]
                     /\ OWNERS[i] \in container
                     /\ \A j \in 1..(i - 1) : OWNERS[j] \notin container
      ]_vars

\* sign_transaction(submit=False) with no submitter failed with
\* NoLocalSigners: the account manager holds no owner
C31_Witness ==
    /\ last.op = "sign_transaction"
    /\ last.submitter = None
    /\ ~last.submit
    /\ last.result = "NoLocalSigners"
    /\ \A i \in 1..Len(OWNERS) : OWNERS[i] \notin container

\* ---------------------------------------------------------------------
\* Translation of contract reverts (exceptions.py).  A message is the
\* sequence of its characters.

REVERT_PREFIX == <<"r", "e", "v", "e", "r", "t", ":", " ">>
GS013 == <<"G", "S", "0", "1", "3">>
GS025 == <<"G", "S", "0", "2", "5">>

\* SAFE_ERROR_CODES, two of its entries
SAFE_ERROR_CODES ==
    <<<<GS013, "Safe transaction failed when gasPrice and safeTxGas were 0">>,
      <<GS025, "Hash has not been approved">>>>

RECURSIVE str_replace(_, _)
\* s.replace(old, ""): every occurrence of old, left to right
str_replace(s, old) ==
    IF Len(s) < Len(old) THEN s
    ELSE IF SubSeq(s, 1, Len(old)) = old
    THEN str_replace(SubSeq(s, Len(old) + 1, Len(s)), old)
    ELSE <<s[1]>> \o str_replace(Tail(s), old)

\* s.strip()
str_strip(s) ==
    LET inner == {i \in 1..Len(s) : s[i] /= " "}
    IN  IF inner = {} THEN <<>>
        ELSE SubSeq(s, CHOOSE i \in inner : \A j \in inner : i <= j,
                       CHOOSE i \in inner : \A j \in inner : j <= i)

\* handle_safe_logic_error.__exit__(exc_type, exc, tb): what leaves the
\* with block when exc was raised in it
handle_safe_logic_error(exc_type, message) ==
    LET looked_up == str_strip(str_replace(message, REVERT_PREFIX))
        error_code == str_replace(message, REVERT_PREFIX)
    IN  IF /\ exc_type = "ContractLogicError"
           /\ Len(looked_up) >= 2 /\ SubSeq(looked_up, 1, 2) = <<"G", "S">>
           /\ DictHas(SAFE_ERROR_CODES, looked_up)
        THEN IF DictHas(SAFE_ERROR_CODES, error_code)
             THEN [raised |-> "SafeLogicError", code |-> error_code,
                   text |-> DictGet(SAFE_ERROR_CODES, error_code)]
             ELSE [raised |-> "KeyError", key |-> error_code]
        ELSE [raised |-> exc_type, message |-> message]

\* an exception raised inside a decorated method: a generic revert, a
\* revert of a subclass, or another error, with its message
HandleError ==
    /\ Idle
    /\ \E exc_type \in {"ContractLogicError", "OutOfGasError", "ValueError"},
          pre \in {<<>>, REVERT_PREFIX}, lead \in {<<>>, <<" ">>},
          trail \in {<<>>, <<" ">>},
          body \in {GS013, GS025, <<"G", "S", "9", "9", "9">>, GS013 \o <<"x">>,
                    <<"n", "o", " ", "g", "a", "s">>} :
        LET message == pre \o lead \o body \o trail
        IN  last' = [op |-> "handle_safe_logic_error", exc_type |-> exc_type,
                     message |-> message, pre |-> pre, body |-> body,
                     result |-> handle_safe_logic_error(exc_type, message)]
    /\ UNCHANGED <<proposers, delegates, data_folder, _accounts, threshold, container, chain_nonce, approvedHashes, transactions,
                   transactions_by_nonce>>

NextError ==
    \/ HandleError
    \/ Return

ErrorSpec == InitIndex /\ [][NextError]_vars

\* C32: a revert becomes SafeLogicError exactly when it is a generic
\* ContractLogicError whose message, without its 'revert: ' prefix and
\* surrounding whitespace, is a known GS code, and the error then carries
\* that code's text; in every other case the original exception leaves
C32_RevertTranslated ==
    last.op = "handle_safe_logic_error" =>
        IF last.exc_type = "ContractLogicError" /\ DictHas(SAFE_ERROR_CODES, last.body)
        THEN /\ last.result.raised = "SafeLogicError"
             /\ last.result.code = last.body
             /\ last.result.text = DictGet(SAFE_ERROR_CODES, last.body)
        ELSE /\ last.result.raised = last.exc_type
             /\ last.result.message = last.message

\* ---------------------------------------------------------------------
\* Delegates of the in-memory index (client/mock.py)

MaxDelegates == 2
MaxDelegateIndex == 3

\* the delegates registered in a map, with repetitions
DelegateCount(d) == TotalLen([j \in 1..Len(d) |-> d[j][2]], 1..Len(d))

\* safe.client.add_delegate(delegate, label, delegator)
AddDelegate ==
    /\ Idle
    /\ \E delegate \in {ACCT_1, ACCT_3}, delegator \in {ACCT_0, ACCT_1, ACCT_3} :
        LET r == add_delegate(delegate, delegator)
        IN  /\ DelegateCount(r.delegates) <= MaxDelegates
            /\ delegates' = r.delegates
            /\ last' = [NoCall EXCEPT !.op = "add_delegate",
                                      !.submitter = delegator,
                                      !.asked = <<delegate>>,
                                      !.result = IF r.error = "" THEN "None" ELSE r.error]
    /\ UNCHANGED <<proposers, data_folder, _accounts, threshold, container, chain_nonce,
                   approvedHashes, transactions, transactions_by_nonce>>

\* safe.client.remove_delegate(delegate, delegator)
RemoveDelegate ==
    /\ Idle
    /\ \E delegate \in {ACCT_1, ACCT_3}, delegator \in {ACCT_0, ACCT_1, ACCT_3} :
        LET r == remove_delegate(delegate, delegator)
        IN  /\ delegates' = r.delegates
            /\ last' = [NoCall EXCEPT !.op = "remove_delegate",
                                      !.submitter = delegator,
                                      !.asked = <<delegate>>,
                                      !.result = IF r.error = "" THEN "None" ELSE r.error]
    /\ UNCHANGED <<proposers, data_folder, _accounts, threshold, container, chain_nonce,
                   approvedHashes, transactions, transactions_by_nonce>>

\* safe.propose_safe_tx(safe_tx, submitter=...)
ProposeSafeTx ==
    /\ Idle
    /\ \E safe_tx \in IndexSafeTxs, submitter \in {None, ACCT_0, ACCT_1, ACCT_3},
          signs \in BOOLEAN :
        LET r == propose_safe_tx(transactions, transactions_by_nonce, safe_tx,
                                 submitter, <<>>, signs)
        IN  /\ IndexSize(r.txs, r.byn) <= MaxDelegateIndex
            /\ last' = [NoCall EXCEPT !.op = "propose_safe_tx",
                                      !.tx_id = get_safe_tx_hash(safe_tx),
                                      !.submitter = submitter,
                                      !.posted = r.posted,
                                      !.result = IF r.error = "" THEN "None" ELSE r.error]
            /\ transactions' = r.txs
            /\ transactions_by_nonce' = r.byn
    /\ UNCHANGED <<proposers, delegates, data_folder, _accounts, threshold, container, chain_nonce,
                   approvedHashes>>

\* safe.client.post_transaction(safe_tx, signatures), the index kept small
PostToIndex ==
    /\ PostTransaction
    /\ IndexSize(transactions', transactions_by_nonce') <= MaxDelegateIndex

NextDelegates ==
    \/ AddDelegate
    \/ RemoveDelegate
    \/ ProposeSafeTx
    \/ PostToIndex
    \/ Return

DelegateSpec == InitIndex /\ [][NextDelegates]_vars

\* a signature map holds the signature of a current owner or of a delegate
\* of a current owner
FromOwnerOrDelegate(sigs) ==
    \E i \in 1..Len(sigs) :
        \/ sigs[i][1] \in Range(OWNERS)
        \/ \E j \in 1..Len(delegates) :
              /\ sigs[i][1] \in Range(delegates[j][2])
              /\ delegates[j][1] \in Range(OWNERS)

\* C33: the in-memory index accepts a proposal only if one of the posted
\* signatures is a current owner's or that of a delegate of a current
\* owner, and otherwise fails with SafeClientException and stores nothing;
\* the confirmations stored are the owners' signatures only, so a proposal
\* of a delegate alone is pending with no confirmation
C33_DelegateMayPropose ==
    [][(/\ Idle
        /\ last'.op \in {"post_transaction", "propose_safe_tx"})
       => LET sigs == last'.posted[1]
              owned == SelectSeq(sigs, LAMBDA kv : kv[1] \in Range(OWNERS))
          IN  IF FromOwnerOrDelegate(sigs)
              THEN /\ last'.result = "None"
                   /\ last'.tx_id \in DOMAIN transactions'
                   /\ LET entry == transactions'[last'.tx_id]
                      IN  /\ ~entry.executed
                          /\ Len(entry.confirmations) = Len(owned)
                          /\ \A i \in 1..Len(owned) :
                                entry.confirmations[i].owner = owned[i][1]
                          /\ entry.nonce \in DOMAIN transactions_by_nonce'
                          /\ last'.tx_id \in Range(transactions_by_nonce'[entry.nonce])
              ELSE /\ last'.result = "SafeClientException"
                   /\ transactions' = transactions
                   /\ transactions_by_nonce' = transactions_by_nonce
      ]_vars

\* a delegate of an owner, not an owner itself, proposed alone: the entry is
\* stored with no confirmation
C33_Witness ==
    /\ last.op = "propose_safe_tx"
    /\ last.submitter = ACCT_3
    /\ last.result = "None"
    /\ Len(last.posted[1]) = 1
    /\ last.posted[1][1][1] = ACCT_3
    /\ \E j \in 1..Len(delegates) : ACCT_3 \in Range(delegates[j][2])
    /\ last.tx_id \in DOMAIN transactions
    /\ transactions[last.tx_id].confirmations = <<>>

\* the delegates a map registers
Registered(d) == UNION {Range(d[j][2]) : j \in 1..Len(d)}

\* C34: add_delegate succeeds only for a delegator that is a current owner
\* and otherwise fails with SafeClientException and leaves the map as it
\* was; no delegator of get_delegates() maps to an empty list, the key of a
\* delegator goes with its last delegate, and delegator_for_delegate(d)
\* returns a delegator exactly while d is registered
C34_DelegateMap ==
    [][/\ \A j \in 1..Len(delegates') : delegates'[j][2] /= <<>>
       /\ \A d \in ACCOUNTS :
             /\ (delegator_for_delegate(d) /= None) <=> (d \in Registered(delegates))
             /\ delegator_for_delegate(d) /= None
                   => \E j \in 1..Len(delegates) :
                         /\ delegates[j][1] = delegator_for_delegate(d)[1]
                         /\ d \in Range(delegates[j][2])
       /\ (Idle /\ last'.op = "add_delegate")
             => IF last'.submitter \in Range(OWNERS)
                THEN /\ last'.result = "None"
                     /\ DictHas(delegates', last'.submitter)
                     /\ last'.asked[1] \in Range(DictGet(delegates', last'.submitter))
                     /\ DelegateCount(delegates') = DelegateCount(delegates) + 1
                ELSE /\ last'.result = "SafeClientException"
                     /\ delegates' = delegates
       /\ (Idle /\ last'.op = "remove_delegate" /\ last'.result = "None")
             => /\ DelegateCount(delegates') = DelegateCount(delegates) - 1
                /\ DictGet(delegates, last'.submitter) = <<last'.asked[1]>>
                      => ~DictHas(delegates', last'.submitter)
       /\ (Idle /\ last'.op = "remove_delegate" /\ last'.result /= "None")
             => delegates' = delegates
      ]_vars

\* the last delegate of a delegator was removed and the key went with it
C34_Witness ==
    /\ last.op = "remove_delegate"
    /\ last.result = "None"
    /\ ~DictHas(delegates, last.submitter)
    /\ delegator_for_delegate(last.asked[1]) = None

\* ---------------------------------------------------------------------
\* The container of Safes (accounts.py, SafeContainer).  data_folder maps an
\* alias to the address saved in its file; _accounts holds the aliases whose
\* account object was built in this session.

Aliases == {"safe", "vault", "cold"}
SafeAddresses == {SAFE_ADDRESS, RECEIVER}

\* SafeContainer.save_account(alias, address)
save_account(alias, address) ==
    IF DictHas(data_folder, alias)
    THEN [error |-> "ApeSafeError", data_folder |-> data_folder]
    ELSE [error |-> "", data_folder |-> Append(data_folder, <<alias, address>>)]

\* SafeContainer.load_account(alias): an account built earlier is returned
\* without a look at its file
load_account(alias) ==
    IF alias \in _accounts
    THEN [error |-> "", _accounts |-> _accounts]
    ELSE IF ~DictHas(data_folder, alias)
    THEN [error |-> "ApeSafeError", _accounts |-> _accounts]
    ELSE [error |-> "", _accounts |-> _accounts \cup {alias}]

\* SafeContainer.delete_account(alias): unlink(missing_ok=True)
delete_account(alias) == SelectSeq(data_folder, LAMBDA kv : kv[1] /= alias)

SaveAccount ==
    /\ Idle
    /\ \E alias \in Aliases, address \in SafeAddresses :
        LET r == save_account(alias, address)
        IN  /\ data_folder' = r.data_folder
            /\ last' = [op |-> "save_account", alias |-> alias, address |-> address,
                        result |-> IF r.error = "" THEN "None" ELSE r.error]
    /\ UNCHANGED <<proposers, delegates, _accounts, threshold, container, chain_nonce,
                   approvedHashes, transactions, transactions_by_nonce>>

LoadAccount ==
    /\ Idle
    /\ \E alias \in Aliases :
        LET r == load_account(alias)
        IN  /\ _accounts' = r._accounts
            /\ last' = [op |-> "load_account", alias |-> alias,
                        result |-> IF r.error = "" THEN "SafeAccount" ELSE r.error]
    /\ UNCHANGED <<proposers, delegates, data_folder, threshold, container, chain_nonce,
                   approvedHashes, transactions, transactions_by_nonce>>

DeleteAccount ==
    /\ Idle
    /\ \E alias \in Aliases :
        /\ data_folder' = delete_account(alias)
        /\ last' = [op |-> "delete_account", alias |-> alias, result |-> "None"]
    /\ UNCHANGED <<proposers, delegates, _accounts, threshold, container, chain_nonce,
                   approvedHashes, transactions, transactions_by_nonce>>

NextContainer ==
    \/ SaveAccount
    \/ LoadAccount
    \/ DeleteAccount
    \/ Return

ContainerSpec == InitIndex /\ [][NextContainer]_vars

\* C35: load_account(alias) succeeds exactly when the alias exists (saved
\* and not deleted since) and raises ApeSafeError otherwise, also when the
\* alias was loaded before it was deleted; save_account on an existing
\* alias raises ApeSafeError and leaves the stored account as it was
C35_LoadExactlyExisting ==
    [][/\ (Idle /\ last'.op = "load_account")
             => (last'.result = "SafeAccount") <=> DictHas(data_folder, last'.alias)
       /\ (Idle /\ last'.op = "load_account" /\ last'.result /= "SafeAccount")
             => last'.result = "ApeSafeError"
       /\ (Idle /\ last'.op = "save_account")
             => IF DictHas(data_folder, last'.alias)
                THEN /\ last'.result = "ApeSafeError"
                     /\ data_folder' = data_folder
                ELSE /\ last'.result = "None"
                     /\ DictGet(data_folder', last'.alias) = last'.address
      ]_vars

\* C36: whenever sign_transaction returns an executable transaction and
\* signatures_required was not given, the signatures it encodes, the
\* submitter's pre-approval counted, are those of at least `threshold`
\* distinct signers, whatever the index and the approvals on chain hold
C36_ExecutableHasThreshold ==
    (/\ last.op = "sign_transaction"
     /\ last.result = "txn"
     /\ last.signatures_required = None)
    => Cardinality({last.signatures[i][1] : i \in 1..Len(last.signatures)}) >= threshold

\* the raw sequence is in descending nonce order
DescendingNonces(raw) ==
    \A i \in 1..Len(raw), j \in 1..Len(raw) : i < j => raw[i].nonce >= raw[j].nonce

\* every executed entry of the raw sequence has a nonce below the next nonce
ExecutedBelow(raw, next_nonce) ==
    \A i \in 1..Len(raw) : raw[i].executed => raw[i].nonce < next_nonce

\* the entry passes the id filter and the missing-signer filter of the
\* call, a filter that is None or an empty set letting every entry through
PassesFilters(txn, a) ==
    /\ (a.filter_by_ids /= None /\ a.filter_by_ids[1] /= {})
          => txn.safe_tx_hash \in a.filter_by_ids[1]
    /\ (a.filter_by_missing_signers /= None /\ a.filter_by_missing_signers[1] /= {})
          => ~(a.filter_by_missing_signers[1] \subseteq ConfOwners(txn))

MaxRebuildIndex == 3

\* the JSON rendering of a byte string: "0x" and two hex digits per byte
to_hex(b) ==
    [prefix |-> "0x",
     digits |-> JoinBytes([i \in 1..Len(b) |-> <<b[i] \div 16, b[i] % 16>>])]

\* the bytes a record definition reads out of a hex string
HexBytes(h) ==
    [i \in 1..(Len(h.digits) \div 2) |-> 16 * h.digits[2 * i - 1] + h.digits[2 * i]]

\* UnexecutedTxData.model_dump(mode="json", by_alias=True): the fields under
\* their aliases, in the order of the class
model_dump(entry) ==
    <<  <<"safe", entry.safe>>, <<"to", entry.to>>, <<"value", entry.value>>,
        <<"data", to_hex(entry.data)>>, <<"operation", entry.operation>>,
        <<"gasToken", entry.gas_token>>, <<"safeTxGas", entry.safe_tx_gas>>,
        <<"baseGas", entry.base_gas>>, <<"gasPrice", entry.gas_price>>,
        <<"refundReceiver", entry.refund_receiver>>, <<"nonce", entry.nonce>>,
        <<"safeTxHash", entry.safe_tx_hash>>,
        <<"confirmationsRequired", entry.confirmations_required>>,
        <<"confirmations", entry.confirmations>>  >>

\* the keys of the dictionary create_safe_tx starts from
SafeTxKeys ==
    {"to", "value", "data", "nonce", "operation", "safeTxGas", "gasPrice",
     "gasToken", "refundReceiver"}

\* create_safe_tx(**safe_tx_kwargs) with no txn: the defaults of a self-call,
\* over which go the keyword arguments whose key the dictionary has; the
\* definition gives baseGas its default of 0
create_safe_tx_of_kwargs(safe_tx_kwargs, nonce0) ==
    LET given(k) == k \in SafeTxKeys /\ DictHas(safe_tx_kwargs, k)
        arg(k, default) == IF given(k) THEN DictGet(safe_tx_kwargs, k) ELSE default
    IN  [to |-> arg("to", SAFE_ADDRESS), value |-> arg("value", 0),
         data |-> IF given("data") THEN HexBytes(DictGet(safe_tx_kwargs, "data")) ELSE <<>>,
         nonce |-> arg("nonce", nonce0), operation |-> arg("operation", 0),
         safeTxGas |-> arg("safeTxGas", 0), baseGas |-> 0,
         gasPrice |-> arg("gasPrice", 0), gasToken |-> arg("gasToken", ZERO_ADDRESS),
         refundReceiver |-> arg("refundReceiver", ZERO_ADDRESS)]

\* the records proposed: with and without data, safeTxGas and baseGas
RebuildSafeTxs ==
    {[to |-> RECEIVER, value |-> 0, data |-> d, nonce |-> n, operation |-> 0,
      safeTxGas |-> g, baseGas |-> b, gasPrice |-> 0, gasToken |-> ZERO_ADDRESS,
      refundReceiver |-> ZERO_ADDRESS] :
        d \in {<<>>, <<0, 255>>}, n \in 0..1, g \in {0, 50000}, b \in {0, 21000}}

\* safe.propose_safe_tx(safe_tx, submitter=owner) of a record of the caller
ProposeRecord ==
    /\ Idle
    /\ \E safe_tx \in RebuildSafeTxs, submitter \in {None, ACCT_0} :
        LET r == propose_safe_tx(transactions, transactions_by_nonce, safe_tx,
                                 submitter, <<>>, TRUE)
        IN  /\ IndexSize(r.txs, r.byn) <= MaxRebuildIndex
            /\ last' = [op |-> "propose_safe_tx", tx_id |-> get_safe_tx_hash(safe_tx),
                        result |-> IF r.error = "" THEN "None" ELSE r.error]
            /\ transactions' = r.txs
            /\ transactions_by_nonce' = r.byn
    /\ UNCHANGED <<proposers, delegates, data_folder, _accounts, threshold, container, chain_nonce,
                   approvedHashes>>

\* one step of pending_transactions: the record rebuilt from a pending
\* entry and the entry's confirmations, and what get_api_confirmations then
\* finds for the rebuilt record
PendingTransactions ==
    /\ Idle
    /\ LET pending == get_transactions(transactions, transactions_by_nonce, "False",
                                       0, None, None, None)
       IN  \E i \in 1..Len(pending) :
             LET executed_tx == pending[i]
                 safe_tx == create_safe_tx_of_kwargs(
                                model_dump(executed_tx),
                                new_nonce(transactions, transactions_by_nonce))
             IN  last' = [op |-> "pending_transactions", entry |-> executed_tx,
                          safe_tx |-> safe_tx,
                          tx_id |-> get_safe_tx_hash(safe_tx),
                          confirmations |-> executed_tx.confirmations,
                          api_confirmations |->
                              get_api_confirmations(transactions, safe_tx)]
    /\ UNCHANGED <<proposers, delegates, data_folder, _accounts, threshold, container, chain_nonce,
                   approvedHashes, transactions, transactions_by_nonce>>

NextRebuild ==
    \/ ProposeRecord
    \/ PendingTransactions
    \/ Return

RebuildSpec == InitIndex /\ [][NextRebuild]_vars

\* C38: the record rebuilt from a stored entry has the tx_id of the entry,
\* whatever the entry's fields, and the confirmations of the entry are
\* found for it
C38_RebuiltSameId ==
    last.op = "pending_transactions" =>
        /\ last.tx_id = last.entry.safe_tx_hash
        /\ Len(last.api_confirmations) = Len(last.confirmations)

(***************************************************************************)
(* Two proposers against the same index.                                   *)
(***************************************************************************)
MaxRounds == 2

\* the transaction each proposer wraps; they differ in the receiver
ProposerTxn(p, v) ==
    [receiver |-> IF p = "first" THEN RECEIVER ELSE ACCT_2, value |-> v, data |-> 0,
     nonce |-> None]

\* the owner each proposer submits as
ProposerAccount(p) == IF p = "first" THEN ACCT_0 ELSE ACCT_1

\* create_safe_tx evaluating self.new_nonce for a transaction without nonce
ReadNewNonce(p) ==
    /\ Idle
    /\ proposers[p].pc = "idle"
    /\ proposers[p].rounds < MaxRounds
    /\ proposers' = [proposers EXCEPT
                        ![p].pc = "read",
                        ![p].nonce = new_nonce(transactions, transactions_by_nonce)]
    /\ UNCHANGED <<delegates, data_folder, _accounts, threshold, container, chain_nonce,
                   approvedHashes, transactions, transactions_by_nonce, last>>

\* create_safe_tx returning the record with the nonce it read
BuildProposal(p) ==
    /\ proposers[p].pc = "read"
    /\ \E v \in {0, 1} :
         proposers' = [proposers EXCEPT
                          ![p].pc = "built",
                          ![p].safe_tx = create_safe_tx(ProposerTxn(p, v), proposers[p].nonce)]
    /\ UNCHANGED <<delegates, data_folder, _accounts, threshold, container, chain_nonce,
                   approvedHashes, transactions, transactions_by_nonce, last>>

\* propose_safe_tx(safe_tx, submitter=owner): the owner signs and the record
\* is posted to the index
PostProposal(p) ==
    /\ proposers[p].pc = "built"
    /\ LET r == propose_safe_tx(transactions, transactions_by_nonce,
                                proposers[p].safe_tx, ProposerAccount(p), <<>>, TRUE)
       IN  /\ transactions' = r.txs
           /\ transactions_by_nonce' = r.byn
    /\ proposers' = [proposers EXCEPT ![p].pc = "idle", ![p].safe_tx = <<>>,
                                      ![p].rounds = @ + 1]
    /\ UNCHANGED <<delegates, data_folder, _accounts, threshold, container, chain_nonce,
                   approvedHashes, last>>

NextRace ==
    \/ \E p \in Proposers : ReadNewNonce(p)
    \/ \E p \in Proposers : BuildProposal(p)
    \/ \E p \in Proposers : PostProposal(p)

RaceSpec == InitIndex /\ [][NextRace]_vars

\* the pending proposals of the index that have the nonce
PendingAt(txs, byn, n) ==
    SelectSeq(get_transactions(txs, byn, "False", 0, None, None, None),
              LAMBDA e : e.nonce = n)

\* the original statement of C39: however the two proposers interleave, no
\* two distinct proposals are pending with the same nonce
C39_NoSharedNonce ==
    \A n \in 0..(2 * MaxRounds) :
        Len(PendingAt(transactions, transactions_by_nonce, n)) <= 1

\* C39: a proposal posted while the nonce it was built with is still the new
\* nonce of the index (no other proposal was posted since the nonce was
\* read) is the only proposal pending with its nonce
C39_FreshNonceAlone ==
    [][\A p \in Proposers :
          (/\ PostProposal(p)
           /\ proposers[p].safe_tx.nonce = new_nonce(transactions, transactions_by_nonce))
          => LET pending == PendingAt(transactions', transactions_by_nonce',
                                      proposers[p].safe_tx.nonce)
             IN  /\ Len(pending) = 1
                 /\ pending[1].safe_tx_hash = get_safe_tx_hash(proposers[p].safe_tx)]_vars

\* both proposers posted, each with a nonce that was still new, and their
\* proposals are pending with the nonces 0 and 1
C39_Witness ==
    /\ proposers["first"].rounds = 1
    /\ proposers["second"].rounds = 1
    /\ Len(PendingAt(transactions, transactions_by_nonce, 0)) = 1
    /\ Len(PendingAt(transactions, transactions_by_nonce, 1)) = 1

(***************************************************************************)
(* Confirmations fetched from an index that fails.                         *)
(***************************************************************************)
MaxConfPages == 2

\* the results of one page of confirmations of the record: none, of the
\* first owner, of the second, of both
ConfirmationPages(safe_tx) ==
    LET c(i) == Confirmation(OWNERS[i], sign_message(OWNERS[i], safe_tx))
    IN  {<<>>, <<c(1)>>, <<c(2)>>, <<c(1), c(2)>>}

\* SafeClient.get_confirmations(safe_tx_hash): a generator function, so the
\* call runs none of its body and returns the iterator
SafeClient_get_confirmations(pages, fails_at) ==
    [pages |-> pages, fails_at |-> fails_at, url |-> 1]

RECURSIVE IterateConfirmations(_)
\* the iterator run to its end: the page of the url is requested, _get
\* raising ClientResponseError (a SafeClientException) if the index fails
\* there; its results are yielded and the url becomes the next page's
IterateConfirmations(it) ==
    IF it.url > Len(it.pages) THEN [raised |-> "", items |-> <<>>]
    ELSE IF it.fails_at = it.url THEN [raised |-> "SafeClientException", items |-> <<>>]
    ELSE LET rest == IterateConfirmations([it EXCEPT !.url = @ + 1])
         IN  [raised |-> rest.raised, items |-> it.pages[it.url] \o rest.items]

\* get_api_confirmations over a client of the kind: the call is inside the
\* try block, the iteration of what it returned is after it. A client of
\* kind "function" fetches every page inside the call, a client of kind
\* "generator" (SafeClient) when it is iterated
get_api_confirmations_of(kind, pages, fails_at) ==
    LET run == IterateConfirmations(SafeClient_get_confirmations(pages, fails_at))
    IN  IF kind = "function" /\ run.raised /= ""
        THEN [raised |-> "", value |-> <<>>]
        ELSE IF run.raised /= ""
        THEN [raised |-> run.raised, value |-> <<>>]
        ELSE [raised |-> "", value |-> DictOfConfirmations(<<>>, run.items)]

\* _all_approvals over such a client
_all_approvals_of(kind, pages, fails_at, safe_tx) ==
    LET approvals == get_api_confirmations_of(kind, pages, fails_at)
    IN  IF approvals.raised /= "" THEN approvals
        ELSE [raised |-> "",
              value |-> DictUpdate(approvals.value, _contract_approvals(safe_tx))]

\* safe._all_approvals(safe_tx), as sign_transaction and submit_safe_tx call
\* it, against an index that serves the pages and fails at page fails_at
\* (0: at none)
AllApprovals ==
    /\ Idle
    /\ \E safe_tx \in SafeTxs, kind \in {"function", "generator"}, n \in 1..MaxConfPages :
       \E pages \in [1..n -> ConfirmationPages(safe_tx)], fails_at \in 0..n :
          last' = [op |-> "_all_approvals", safe_tx |-> safe_tx, kind |-> kind,
                   pages |-> pages, fails_at |-> fails_at,
                   api |-> get_api_confirmations_of(kind, pages, fails_at),
                   result |-> _all_approvals_of(kind, pages, fails_at, safe_tx)]
    /\ UNCHANGED <<proposers, delegates, data_folder, _accounts, threshold, container,
                   chain_nonce, approvedHashes, transactions, transactions_by_nonce>>

NextFetch ==
    \/ ApproveHash
    \/ AllApprovals
    \/ Return

FetchSpec == InitIndex /\ [][NextFetch]_vars

\* C40: when the index fails while the confirmations are fetched, at the
\* first page or at a later one, get_api_confirmations returns an empty
\* mapping and raises nothing, and _all_approvals gives the on-chain
\* approvals alone
C40_FailureSwallowed ==
    (last.op = "_all_approvals" /\ last.fails_at /= 0) =>
        /\ last.api = [raised |-> "", value |-> <<>>]
        /\ last.result = [raised |-> "", value |-> _contract_approvals(last.safe_tx)]

====
